---- MODULE Spec2Model ----
(***************************************************************************)
(* State-machine model of the email-assassin mailbox engine:               *)
(*   - imap/scanner.rs : parse_sender, fetch_all_uids, ScanWorker,         *)
(*                       run_scan                                          *)
(*   - imap/deleter.rs : nuke_sender                                       *)
(*   - bridge.rs       : handle_scan, handle_delete                        *)
(* Text is modelled as sequences of one-character strings so that the      *)
(* regular expressions, trimming and lowercasing are computed, not         *)
(* assumed.                                                                *)
(***************************************************************************)
EXTENDS Integers, Sequences, FiniteSets, Bags, TLC

(***************************************************************************)
(* Bounds of the model (not program constants).                            *)
(***************************************************************************)
\* longest From value (in characters) drawn for the parser
MaxValueLen == 5

(***************************************************************************)
(* Text helpers: what str::trim, str::to_lowercase and the regex engine    *)
(* do on the characters that occur in the model.                           *)
(***************************************************************************)
UpperCase == <<"A", "B", "E", "F", "K", "M", "N", "O", "R", "U", "W", "X">>
LowerCase == <<"a", "b", "e", "f", "k", "m", "n", "o", "r", "u", "w", "x">>

\* char::to_lowercase on one character
ToLowerChar(c) ==
    IF \E i \in 1..Len(UpperCase) : UpperCase[i] = c
    THEN LowerCase[CHOOSE i \in 1..Len(UpperCase) : UpperCase[i] = c]
    ELSE c

\* str::to_lowercase
to_lowercase(s) == [i \in 1..Len(s) |-> ToLowerChar(s[i])]

\* the characters matched by \s and stripped by str::trim
IsSpace(c) == c \in {" ", "\t", "\r", "\n"}

\* str::trim: drop leading and trailing whitespace
trim(s) ==
    LET keep == {i \in 1..Len(s) : ~IsSpace(s[i])}
    IN IF keep = {} THEN <<>>
       ELSE LET lo == CHOOSE i \in keep : \A j \in keep : i <= j
                hi == CHOOSE i \in keep : \A j \in keep : j <= i
            IN SubSeq(s, lo, hi)

\* marker for "the regex did not match" (Option::None of captures())
NoMatch == [matched |-> FALSE, group |-> <<>>]
Matched(g) == [matched |-> TRUE, group |-> g]

\* FROM_RE = (?i)From:\s*(.*)  -- leftmost match, unanchored; \s* is greedy
\* and also eats line breaks; (.*) stops before the next "\n".
FROM_RE(text) ==
    LET n == Len(text)
        starts == {i \in 1..n : /\ i + 4 <= n
                                /\ to_lowercase(SubSeq(text, i, i + 4))
                                     = <<"f", "r", "o", "m", ":">>}
    IN IF starts = {} THEN NoMatch
       ELSE LET s == CHOOSE i \in starts : \A j \in starts : i <= j
                after == s + 5
                nonws == {i \in after..n : ~IsSpace(text[i])}
                b == IF nonws = {} THEN n + 1
                     ELSE CHOOSE i \in nonws : \A j \in nonws : i <= j
                nls == {i \in b..n : text[i] = "\n"}
                e == IF nls = {} THEN n + 1
                     ELSE CHOOSE i \in nls : \A j \in nls : i <= j
            IN Matched(SubSeq(text, b, e - 1))

\* EMAIL_RE = <([^>]+)>  -- leftmost "<" that is followed by at least one
\* character other than ">" and then a ">".
EMAIL_RE(text) ==
    LET n == Len(text)
        Close(i) == {j \in (i + 1)..n : text[j] = ">"}
        FirstClose(i) == CHOOSE j \in Close(i) : \A k \in Close(i) : j <= k
        starts == {i \in 1..n : /\ text[i] = "<"
                                /\ Close(i) # {}
                                /\ FirstClose(i) > i + 1}
    IN IF starts = {} THEN NoMatch
       ELSE LET s == CHOOSE i \in starts : \A j \in starts : i <= j
            IN Matched(SubSeq(text, s + 1, FirstClose(s) - 1))

\* the parser's internal "no sender" marker
Unknown == <<"u", "n", "k", "n", "o", "w", "n">>

\* scanner.rs parse_sender
parse_sender(rawbytes) ==
    LET m == FROM_RE(rawbytes)
    IN IF m.matched
       THEN LET raw_from == trim(m.group)
                email_match == EMAIL_RE(raw_from)
            IN IF email_match.matched
               THEN to_lowercase(email_match.group)
               ELSE IF raw_from # <<>>
                    THEN to_lowercase(raw_from)
                    ELSE Unknown
       ELSE Unknown

(***************************************************************************)
(* The mail server's rendering of a stored From field, as returned for     *)
(* BODY.PEEK[HEADER.FIELDS (FROM)]: the field line(s) as stored (a long    *)
(* field may be folded, RFC 5322 2.2.3: CRLF followed by white space),     *)
(* then the empty line that ends the header section.                       *)
(***************************************************************************)
CRLF == <<"\r", "\n">>
FieldNames == {<<"F", "r", "o", "m", ":">>, <<"F", "R", "O", "M", ":">>}
ValueChars == {"B", "K", "<", ">", " "}
NoFold == 0 - 1

\* all From values of at most MaxValueLen characters
Values == UNION {[1..n -> ValueChars] : n \in 0..MaxValueLen}

\* a stored message header: no From field at all, or a From field with a
\* value and an optional blank after the colon.  A field may be stored
\* folded: a CRLF is inserted in front of one of its blanks (`fold` is the
\* number of value characters in front of the line break).
IsStoredHeader(h) ==
    \/ h = [has_from |-> FALSE, name |-> <<>>, lead |-> <<>>, value |-> <<>>,
            fold |-> NoFold]
    \/ \E nm \in FieldNames, ld \in {<<>>, <<" ">>}, v \in Values :
         \E f \in {NoFold} \cup {k \in 0..(Len(v) - 1) : v[k + 1] = " "} :
           h = [has_from |-> TRUE, name |-> nm, lead |-> ld, value |-> v,
                fold |-> f]

\* the header bytes the server returns for a stored header
Render(h) ==
    IF ~h.has_from THEN CRLF
    ELSE h.name \o h.lead
         \o (IF h.fold = NoFold THEN h.value
             ELSE SubSeq(h.value, 1, h.fold) \o CRLF
                  \o SubSeq(h.value, h.fold + 1, Len(h.value)))
         \o CRLF \o CRLF

\* the stored headers of the folders the scan runs on
NoHeader == [has_from |-> FALSE, name |-> <<>>, lead |-> <<>>, value |-> <<>>,
             fold |-> NoFold]
HdrAngle == [has_from |-> TRUE, name |-> <<"F", "r", "o", "m", ":">>,
             lead |-> <<" ">>,
             value |-> <<"B", " ", "<", "B", "@", "X", ">">>, fold |-> NoFold]
HdrBare == [has_from |-> TRUE, name |-> <<"F", "R", "O", "M", ":">>,
            lead |-> <<>>, value |-> <<"M", "K">>, fold |-> NoFold]
ScanHeaders == {HdrAngle, HdrBare, NoHeader}

\* a message whose From field names its sender by the word "unknown"
HdrUnknown == [has_from |-> TRUE, name |-> <<"F", "r", "o", "m", ":">>,
               lead |-> <<" ">>,
               value |-> <<"U", "n", "k", "n", "o", "w", "n">>,
               fold |-> NoFold]

\* the stored headers of the chunks a single scan_batch call is run on
BatchHeaders == ScanHeaders \cup {HdrUnknown}

\* parse_sender on the header bodies of these folders, computed once
ParsedBodies == [b \in {Render(h) : h \in BatchHeaders} |-> parse_sender(b)]

\* parse_fetched with a fault: the marker for "no sender" is the empty
\* text, which scan_batch does not filter
parse_fetched_EmptyMarker(body) ==
    LET sender == IF body \in DOMAIN ParsedBodies THEN ParsedBodies[body]
                  ELSE parse_sender(body)
    IN IF sender = Unknown THEN <<>> ELSE sender

\* parse_sender as scan_batch calls it (scanner.rs line 116)
parse_fetched(body) ==
    IF body \in DOMAIN ParsedBodies THEN ParsedBodies[body]
    ELSE parse_sender(body)

\* collect_senders with a fault: the loop ends at the first item that is an
\* error or has no header section
RECURSIVE collect_senders_StopAtError(_)
collect_senders_StopAtError(items) ==
    IF items = <<>> THEN <<>>
    ELSE LET fetch == Head(items)
         IN IF fetch.kind = "hdr"
            THEN LET sender == parse_fetched(fetch.body)
                     rest == collect_senders_StopAtError(Tail(items))
                 IN IF sender # Unknown THEN <<sender>> \o rest ELSE rest
            ELSE <<>>

\* scanner.rs scan_batch, lines 111-122: the loop over the fetched items.
\* An item is an error, a fetch without header section, or a header body.
RECURSIVE collect_senders(_)
collect_senders(items) ==
    IF items = <<>> THEN <<>>
    ELSE LET fetch == Head(items)
             rest == collect_senders(Tail(items))
         IN IF fetch.kind = "hdr"
            THEN LET sender == parse_fetched(fetch.body)
                 IN IF sender # Unknown THEN <<sender>> \o rest ELSE rest
            ELSE rest

(***************************************************************************)
(* Numbers.  Progress fractions are f32 in the source; they are modelled   *)
(* as exact fractions in lowest terms.  f32 rounding is monotone, and for  *)
(* completed_batches = num_chunks the f32 expression evaluates to exactly  *)
(* 1.0 (0.05f32 + 0.95f32 rounds to 1.0), so order and the end value are   *)
(* the same in both arithmetics.                                           *)
(***************************************************************************)
RECURSIVE GCD(_, _)
GCD(a, b) == IF b = 0 THEN a ELSE GCD(b, a % b)

Rat(n, d) == LET g == GCD(n, d) IN [num |-> n \div g, den |-> d \div g]
RAdd(a, b) == Rat(a.num * b.den + b.num * a.den, a.den * b.den)
RSub(a, b) == Rat(a.num * b.den - b.num * a.den, a.den * b.den)
RMul(a, b) == Rat(a.num * b.num, a.den * b.den)
RLeq(a, b) == a.num * b.den <= b.num * a.den
Zero == Rat(0, 1)
One == Rat(1, 1)

Min(a, b) == IF a <= b THEN a ELSE b
Max(a, b) == IF a >= b THEN a ELSE b

\* scanner.rs: const MAX_CONCURRENT
MAX_CONCURRENT == 10
\* scanner.rs: const INITIAL_PROGRESS (0.05)
INITIAL_PROGRESS == Rat(5, 100)

(***************************************************************************)
(* Bounds of the scan model.                                               *)
(***************************************************************************)
\* largest folder of the concurrent scan (messages)
MaxFolder == 2
\* largest folder of the sequential planning part of the scan
MaxTotal == 40
\* largest number of messages of one sender in the purge model
MaxMatch == 2001
\* longest sender list of a delete operation
MaxSenders == 3
\* most messages of one sender in the folders of the delete model
MaxOwn == 1
\* largest chunk handed to a single scan_batch call
MaxChunk == 3
\* largest folder of the scans checked for termination
MaxLive == 1
\* most commands the user sends in the application models
MaxOps == 3
\* no message identifier of the model exceeds this
UidLimit == MaxTotal + MaxMatch + 10

(***************************************************************************)
(* Collections.                                                            *)
(***************************************************************************)
Range(f) == {f[x] : x \in DOMAIN f}

\* the ascending sequence of a set of identifiers
Ascending(S) == SelectSeq([i \in 1..UidLimit |-> i], LAMBDA u : u \in S)

Reverse(s) == [i \in 1..Len(s) |-> s[Len(s) + 1 - i]]

\* HashSet::into_iter().collect(): the elements in an unspecified order;
\* the model offers the two extreme orders
Collect(S, order) == IF order = "asc" THEN Ascending(S) ELSE Reverse(Ascending(S))
Orders == {"asc", "desc"}

\* slice::sort_unstable on a Vec<u32>
sort_unstable(v) == Ascending(Range(v))

\* chunks_of with a fault: the shorter last chunk is dropped (chunks_exact)
chunks_of_Exact(v, chunk_size) ==
    LET k == Len(v) \div chunk_size
    IN [c \in 1..k |-> SubSeq(v, (c - 1) * chunk_size + 1, c * chunk_size)]

\* slice::chunks(chunk_size) followed by to_vec on each chunk
chunks_of(v, chunk_size) ==
    LET n == Len(v)
        k == (n + chunk_size - 1) \div chunk_size
    IN [c \in 1..k |-> SubSeq(v, (c - 1) * chunk_size + 1, Min(c * chunk_size, n))]

\* ChunkSize with a fault: sized for twice the pool
ChunkSize_HalfSize(total) == Max(total \div (2 * MAX_CONCURRENT), 1)

\* scanner.rs run_scan, line 148
ChunkSize(total) == Max(total \div MAX_CONCURRENT, 1)

\* scanner.rs run_scan, lines 148-150
Partition(uids) == chunks_of(uids, ChunkSize(Len(uids)))

\* Tally with a fault: insert(s, 1) instead of incrementing the entry
RECURSIVE Tally_Overwrite(_, _)
Tally_Overwrite(map, list) ==
    IF list = <<>> THEN map
    ELSE Tally_Overwrite([x \in DOMAIN map \cup {Head(list)} |->
                            IF x = Head(list) THEN 1 ELSE map[x]],
                         Tail(list))

\* scanner.rs run_scan, lines 202-204: *sender_map.entry(s).or_insert(0) += 1
RECURSIVE Tally(_, _)
Tally(map, senders) ==
    IF senders = <<>> THEN map
    ELSE LET s == Head(senders)
             m2 == IF s \in DOMAIN map
                   THEN [map EXCEPT ![s] = @ + 1]
                   ELSE [x \in DOMAIN map \cup {s} |->
                           IF x = s THEN 1 ELSE map[x]]
         IN Tally(m2, Tail(senders))

EmptyMap == [x \in {} |-> 0]

\* scanner.rs run_scan, lines 211-216: the map's entries in any order,
\* then a stable sort by descending count: every arrangement with
\* non-increasing counts is possible
SortedSenders(map) ==
    LET D == DOMAIN map
        n == Cardinality(D)
    IN {[i \in 1..n |-> [email |-> f[i], count |-> map[f[i]]]] :
          f \in {g \in [1..n -> D] :
                   /\ \A i, j \in 1..n : i # j => g[i] # g[j]
                   /\ \A i \in 1..(n - 1) : map[g[i]] >= map[g[i + 1]]}}

(***************************************************************************)
(* imap/mod.rs connect_imap: transport connect (bounded by                 *)
(* CONNECT_TIMEOUT), TLS upgrade, login, select, in that order.  The       *)
(* argument names the stage the environment makes fail.                    *)
(***************************************************************************)
ConnectFaults == {"none", "tcp", "tcp_timeout", "tls", "login", "select"}

Ok == [ok |-> TRUE, err |-> "none"]
Err(kind) == [ok |-> FALSE, err |-> kind]

\* the stages of opening a session, in the order of the code
Stages == <<"tcp", "tls", "login", "select">>

\* StageError with a fault: a failed login is mapped like a failed connect
StageError_AuthAsConnection(stage) ==
    CASE stage = "tcp" -> "Connection"
      [] stage = "tls" -> "Tls"
      [] stage = "login" -> "Connection"
      [] OTHER -> "Imap"

\* the map_err of each stage (error.rs AppError)
StageError(stage) ==
    CASE stage = "tcp" -> "Connection"
      [] stage = "tls" -> "Tls"
      [] stage = "login" -> "Auth"
      [] OTHER -> "Imap"

\* what the environment does to one attempt to open a session: the stages
\* that fail if they are reached, and whether the transport connect never
\* completes
ConnEnv(fails, hang) == [fails |-> fails, hang |-> hang]

\* the outcome of an attempt: the stages run, whether a session is
\* returned, the error kind, and whether the call is still waiting
Outcome(ran, ok, err, hung) ==
    [ran |-> ran, ok |-> ok, err |-> err, hung |-> hung]

\* the stages after the transport connect: each `?` returns the stage's
\* error, the session is returned after the select
RECURSIVE after_tcp(_, _)
after_tcp(env, k) ==
    IF k > Len(Stages) THEN Outcome(Stages, TRUE, "none", FALSE)
    ELSE IF Stages[k] \in env.fails
         THEN Outcome(SubSeq(Stages, 1, k), FALSE, StageError(Stages[k]), FALSE)
         ELSE after_tcp(env, k + 1)

\* imap/mod.rs connect_imap, lines 17-43: the transport connect is wrapped
\* in timeout(CONNECT_TIMEOUT, ..), whose expiry is a Connection error
connect_stages(env) ==
    IF env.hang THEN Outcome(<<"tcp">>, FALSE, "Connection", FALSE)
    ELSE after_tcp(env, 1)

\* deleter.rs connect_imap, lines 10-31: the same stages, the transport
\* connect awaited as it is
del_connect_stages(env) ==
    IF env.hang THEN Outcome(<<"tcp">>, FALSE, "none", TRUE)
    ELSE after_tcp(env, 1)

\* the environment in which one stage fails, or the transport does not
\* answer
FaultEnv(fault) ==
    ConnEnv(IF fault \in Range(Stages) THEN {fault} ELSE {},
            fault = "tcp_timeout")

connect_imap(fault) ==
    LET r == connect_stages(FaultEnv(fault))
    IN [ok |-> r.ok, err |-> r.err]

(***************************************************************************)
(* State.                                                                  *)
(***************************************************************************)
VARIABLES
    \* --- one fetched item run through the parser (scan_batch's loop body)
    hdr,              \* the stored header of the message
    parsed,           \* parse_sender's result for it (<<"?">> before the call)
    item_out,         \* the senders pushed for it
    \* --- one attempt to open a session
    conn_in,          \* the unit that opens it and what the environment does
    conn_out,         \* the attempt's outcome
    \* --- the mail server's folder, as the scan sees it
    mailbox,          \* identifier -> stored header
    \* --- handle_scan / fetch_all_uids / run_scan
    scan_depth,       \* StartScan.scan_depth
    pc,               \* position of the scan task
    events,           \* BackgroundEvents sent to the UI, in order (those
                      \* not yet taken by the UI, where the UI is modelled)
    enum_session,     \* the session of fetch_all_uids
    all_uids,         \* fetch_all_uids' result
    total_emails,     \* handle_scan's total_emails
    uids_to_scan,     \* the identifiers handed to run_scan
    num_chunks,       \* run_scan's num_chunks
    job_q,            \* the job channel's content (closed once filled)
    workers,          \* the spawned worker tasks: a bag of their local states
    result_q,         \* the result channel's content
    sender_map,       \* run_scan's sender_map
    completed_batches, \* run_scan's completed_batches
    batch_log,        \* history: the scan_batch calls made and how they ended
    \* --- the mail server's folder, as the delete operation sees it
    owned,            \* sender address -> identifiers of its messages
    folder,           \* identifiers of the messages in the folder
    flagged,          \* identifiers carrying the \Deleted flag
    trash,            \* identifiers moved to the trash folder
    \* --- handle_delete / nuke_sender
    account,          \* domain of the credentials' email address
    senders,          \* StartDelete.senders
    mode,             \* StartDelete.mode
    dpc,              \* position of the delete task
    idx,              \* handle_delete's loop index i
    total_removed,    \* handle_delete's total_removed
    removed_senders,  \* handle_delete's removed_senders
    del_session,      \* the session of the running nuke_sender call
    uid_vec,          \* nuke_sender's uid_vec
    done_chunks,      \* chunks of uid_vec the loop has finished
    cmds,             \* commands the running nuke_sender call has issued
    returns,          \* results of the nuke_sender calls, in call order
    \* --- the UI (state.rs AppState) and its channel to the background
    phase,            \* state.phase
    state_senders,    \* state.senders
    sender_selected,  \* state.sender_selected
    state_total,      \* state.total_emails
    error_message,    \* state.error_message ("none" for None)
    scan_progress,    \* state.scan_progress
    delete_progress,  \* state.delete_progress
    delete_mode,      \* state.delete_mode
    cmd_q,            \* commands sent and not yet received by background_loop
    issued            \* number of commands sent so far

parseVars == <<hdr, parsed, item_out>>
connVars == <<conn_in, conn_out>>
scanVars == <<mailbox, scan_depth, pc, events, enum_session, all_uids,
              total_emails, uids_to_scan, num_chunks, job_q, workers,
              result_q, sender_map, completed_batches, batch_log>>
deleteVars == <<owned, folder, flagged, trash, account, senders, mode, dpc,
                idx, total_removed, removed_senders, del_session, uid_vec,
                done_chunks, cmds, returns>>
appVars == <<phase, state_senders, sender_selected, state_total,
             error_message, scan_progress, delete_progress, delete_mode,
             cmd_q, issued>>
vars == <<parseVars, connVars, scanVars, deleteVars, appVars>>

NotParsed == <<"?">>

\* the parser part at rest
ParseIdle == hdr = NoHeader /\ parsed = NotParsed /\ item_out = <<>>

\* no session is being opened on its own
NotRun == Outcome(<<>>, FALSE, "none", FALSE)
NoAttempt == [unit |-> "none", env |-> ConnEnv({}, FALSE)]
ConnIdle == conn_in = NoAttempt /\ conn_out = NotRun

\* the UI as constructed (state.rs AppState::default), nothing sent
AppFresh ==
    /\ phase = "Idle"
    /\ state_senders = <<>>
    /\ sender_selected = <<>>
    /\ state_total = 0
    /\ error_message = "none"
    /\ scan_progress = Zero
    /\ delete_progress = Zero
    /\ cmd_q = <<>>
    /\ issued = 0

AppIdle == AppFresh /\ delete_mode = "Trash"

\* the scan part before anything was enumerated
ScanFresh ==
    /\ events = <<>>
    /\ enum_session = "none"
    /\ all_uids = <<>>
    /\ total_emails = 0
    /\ uids_to_scan = <<>>
    /\ num_chunks = 0
    /\ job_q = <<>>
    /\ workers = EmptyBag
    /\ result_q = <<>>
    /\ sender_map = EmptyMap
    /\ completed_batches = 0
    /\ batch_log = {}

\* the scan part at rest
ScanIdle ==
    /\ mailbox = EmptyMap
    /\ scan_depth = 0
    /\ pc = "off"
    /\ ScanFresh

\* the delete part at rest
DeleteFresh ==
    /\ idx = 0
    /\ total_removed = 0
    /\ removed_senders = <<>>
    /\ del_session = "none"
    /\ uid_vec = <<>>
    /\ done_chunks = 0
    /\ cmds = <<>>
    /\ returns = <<>>

DeleteIdle ==
    /\ owned = EmptyMap
    /\ folder = {}
    /\ flagged = {}
    /\ trash = {}
    /\ account = "gmail.com"
    /\ senders = <<>>
    /\ mode = "Trash"
    /\ DeleteFresh
    /\ dpc = "off"

(***************************************************************************)
(* The parser on one fetched item (scanner.rs scan_batch, lines 113-122).  *)
(***************************************************************************)
ParseItem ==
    /\ parsed = NotParsed
    /\ pc = "off"
    /\ parsed' = parse_sender(Render(hdr))
    /\ item_out' = collect_senders(<<[kind |-> "hdr", body |-> Render(hdr)]>>)
    /\ UNCHANGED <<hdr, connVars, scanVars, deleteVars, appVars>>

InitParse ==
    /\ IsStoredHeader(hdr)
    /\ parsed = NotParsed
    /\ item_out = <<>>
    /\ ConnIdle
    /\ AppIdle
    /\ ScanIdle
    /\ DeleteIdle

NextParse == ParseItem

SpecParse == InitParse /\ [][NextParse]_vars

(***************************************************************************)
(* One attempt to open a session.  The enumeration (scanner.rs line 45)    *)
(* and the scan workers (scanner.rs line 82) call imap/mod.rs              *)
(* connect_imap, nuke_sender (deleter.rs line 41) calls the connect_imap   *)
(* of deleter.rs.                                                          *)
(***************************************************************************)
Units == {"enumeration", "worker", "delete"}

OpenSession ==
    /\ conn_in.unit \in Units
    /\ conn_out = NotRun
    /\ conn_out' = IF conn_in.unit = "delete"
                   THEN del_connect_stages(conn_in.env)
                   ELSE connect_stages(conn_in.env)
    /\ UNCHANGED <<conn_in, parseVars, scanVars, deleteVars, appVars>>

InitConnect ==
    /\ ParseIdle
    /\ \E u \in Units, fails \in SUBSET Range(Stages), hang \in BOOLEAN :
         conn_in = [unit |-> u, env |-> ConnEnv(fails, hang)]
    /\ conn_out = NotRun
    /\ AppIdle
    /\ ScanIdle
    /\ DeleteIdle

NextConnect == OpenSession

SpecConnect == InitConnect /\ [][NextConnect]_vars

(***************************************************************************)
(* Events (bridge.rs BackgroundEvent); the status texts are left out.      *)
(***************************************************************************)
ScanProgress(p) == [type |-> "ScanProgress", progress |-> p]
ScanComplete(s, t) == [type |-> "ScanComplete", senders |-> s, total_emails |-> t]
ScanError(e) == [type |-> "ScanError", msg |-> e]

(***************************************************************************)
(* bridge.rs handle_scan, lines 114-117: the first progress report.        *)
(***************************************************************************)
HS_Begin ==
    /\ pc = "hs_start"
    /\ events' = Append(events, ScanProgress(Zero))
    /\ pc' = "fa_connect"
    /\ UNCHANGED <<parseVars, connVars, appVars, deleteVars, mailbox, scan_depth,
                   enum_session, all_uids, total_emails, uids_to_scan,
                   num_chunks, job_q, workers, result_q, sender_map,
                   completed_batches, batch_log>>

(***************************************************************************)
(* scanner.rs fetch_all_uids, line 45: open the enumeration session; an    *)
(* error returns to handle_scan, which sends ScanError (bridge.rs 121-124).*)
(***************************************************************************)
FA_Connect ==
    /\ pc = "fa_connect"
    /\ \E fault \in ConnectFaults :
         LET r == connect_imap(fault)
         IN IF r.ok
            THEN /\ enum_session' = "open"
                 /\ pc' = "fa_search"
                 /\ UNCHANGED events
            ELSE /\ events' = Append(events, ScanError(r.err))
                 /\ pc' = "hs_done"
                 /\ UNCHANGED enum_session
    /\ UNCHANGED <<parseVars, connVars, appVars, deleteVars, mailbox, scan_depth, all_uids,
                   total_emails, uids_to_scan, num_chunks, job_q, workers,
                   result_q, sender_map, completed_batches, batch_log>>

\* FA_Search with a fault: after a failed search ScanError is sent, but
\* handle_scan goes on with the empty identifier list
FA_Search_Continues ==
    /\ pc = "fa_search"
    /\ \/ \E order \in Orders :
            /\ all_uids' = Collect(DOMAIN mailbox, order)
            /\ pc' = "fa_logout"
            /\ UNCHANGED <<events, enum_session>>
       \/ /\ events' = Append(events, ScanError("Imap"))
          /\ enum_session' = "dropped"
          /\ pc' = "hs_slice"
          /\ UNCHANGED all_uids
    /\ UNCHANGED <<parseVars, connVars, appVars, deleteVars, mailbox, scan_depth,
                   total_emails, uids_to_scan, num_chunks, job_q, workers,
                   result_q, sender_map, completed_batches, batch_log>>

(***************************************************************************)
(* scanner.rs fetch_all_uids, lines 47-50: uid_search("ALL").  On an error *)
(* the function returns at once: the session is dropped, not logged out.   *)
(* The found set is kept in the order collect() will yield it.             *)
(***************************************************************************)
FA_Search ==
    /\ pc = "fa_search"
    /\ \/ \E order \in Orders :
            /\ all_uids' = Collect(DOMAIN mailbox, order)
            /\ pc' = "fa_logout"
            /\ UNCHANGED <<events, enum_session>>
       \/ /\ events' = Append(events, ScanError("Imap"))
          /\ enum_session' = "dropped"
          /\ pc' = "hs_done"
          /\ UNCHANGED all_uids
    /\ UNCHANGED <<parseVars, connVars, appVars, deleteVars, mailbox, scan_depth,
                   total_emails, uids_to_scan, num_chunks, job_q, workers,
                   result_q, sender_map, completed_batches, batch_log>>

\* FA_Logout with a fault: the enumeration session is handed on to the
\* scan and stays open
FA_Logout_KeepsOpen ==
    /\ pc = "fa_logout"
    /\ all_uids' = sort_unstable(all_uids)
    /\ pc' = "hs_slice"
    /\ UNCHANGED <<parseVars, connVars, appVars, deleteVars, mailbox,
                   scan_depth, events, enum_session, total_emails,
                   uids_to_scan, num_chunks, job_q, workers, result_q,
                   sender_map, completed_batches, batch_log>>

(***************************************************************************)
(* scanner.rs fetch_all_uids, lines 52-58: logout (a failure is only       *)
(* logged), then sort the identifiers.                                     *)
(***************************************************************************)
FA_Logout ==
    /\ pc = "fa_logout"
    /\ \E logout_ok \in BOOLEAN :
         enum_session' = IF logout_ok THEN "closed" ELSE "closed"
    /\ all_uids' = sort_unstable(all_uids)
    /\ pc' = "hs_slice"
    /\ UNCHANGED <<parseVars, connVars, appVars, deleteVars, mailbox, scan_depth, events,
                   total_emails, uids_to_scan, num_chunks, job_q, workers,
                   result_q, sender_map, completed_batches, batch_log>>

\* DepthSlice with a fault: the first `depth` identifiers instead of the last
DepthSlice_Head(uids, depth) ==
    IF depth > 0 /\ depth < Len(uids) THEN SubSeq(uids, 1, depth) ELSE uids

\* bridge.rs handle_scan, lines 128-132
DepthSlice(uids, depth) ==
    IF depth > 0 /\ depth < Len(uids)
    THEN SubSeq(uids, Len(uids) - depth + 1, Len(uids))
    ELSE uids

(***************************************************************************)
(* bridge.rs handle_scan, lines 127-141: apply the scan depth, report 5%.  *)
(***************************************************************************)
HS_Slice ==
    /\ pc = "hs_slice"
    /\ total_emails' = Len(all_uids)
    /\ uids_to_scan' = DepthSlice(all_uids, scan_depth)
    /\ events' = Append(events, ScanProgress(Rat(5, 100)))
    /\ pc' = "rs_start"
    /\ UNCHANGED <<parseVars, connVars, appVars, deleteVars, mailbox, scan_depth,
                   enum_session, all_uids, num_chunks, job_q, workers,
                   result_q, sender_map, completed_batches, batch_log>>

\* scanner.rs ScanWorker::new, with the task's history: the sessions it
\* opened, those it dropped after a failed fetch and those it logged out of
NewWorker == [pc |-> "recv", chunk |-> <<>>, session |-> FALSE,
              opened |-> 0, dropped |-> 0, closed |-> 0]

(***************************************************************************)
(* scanner.rs run_scan, lines 143-196: nothing to scan returns an empty    *)
(* result at once (handle_scan then sends ScanComplete, bridge.rs          *)
(* 155-160); otherwise partition, fill and close the job channel, spawn    *)
(* the workers.                                                            *)
(***************************************************************************)
RS_Start ==
    /\ pc = "rs_start"
    /\ IF Len(uids_to_scan) = 0
       THEN /\ events' = Append(events, ScanComplete(<<>>, total_emails))
            /\ pc' = "hs_done"
            /\ UNCHANGED <<num_chunks, job_q, workers>>
       ELSE /\ num_chunks' = Len(Partition(uids_to_scan))
            /\ job_q' = Partition(uids_to_scan)
            /\ workers' = [w \in {NewWorker} |-> MAX_CONCURRENT]
            /\ pc' = "rs_collect"
            /\ UNCHANGED events
    /\ UNCHANGED <<parseVars, connVars, appVars, deleteVars, mailbox, scan_depth,
                   enum_session, all_uids, total_emails, uids_to_scan,
                   result_q, sender_map, completed_batches, batch_log>>

(***************************************************************************)
(* The worker pool.  The tasks differ only in their local state, so the    *)
(* pool is the bag of the tasks' local states.                             *)
(***************************************************************************)
BagReplace(B, old, new) == (B (-) SetToBag({old})) (+) SetToBag({new})

ItemFaults == {"ok", "err", "nohdr"}

\* what uid_fetch streams back for a chunk: one item per identifier, an
\* error item or an item without header section where the environment
\* says so
FetchItems(uids, itemfault) ==
    [i \in 1..Len(uids) |->
       IF itemfault[uids[i]] = "ok"
       THEN [kind |-> "hdr", body |-> Render(mailbox[uids[i]])]
       ELSE [kind |-> itemfault[uids[i]], body |-> <<>>]]

\* ensure_connected with a fault: a session is opened for every job
ensure_connected_Always(session, fault) ==
    LET r == connect_imap(fault)
    IN IF r.ok THEN [res |-> Ok, session |-> TRUE, opened |-> 1]
       ELSE [res |-> r, session |-> FALSE, opened |-> 0]

\* scanner.rs ScanWorker::ensure_connected
ensure_connected(session, fault) ==
    IF session THEN [res |-> Ok, session |-> TRUE, opened |-> 0]
    ELSE LET r == connect_imap(fault)
         IN IF r.ok THEN [res |-> Ok, session |-> TRUE, opened |-> 1]
            ELSE [res |-> r, session |-> FALSE, opened |-> 0]

\* scan_batch with a fault: the session is put back into the worker before
\* the error of a failed fetch is returned
scan_batch_KeepsSession(session, uids, fault, fetch_ok, itemfault) ==
    IF uids = <<>>
    THEN [ok |-> TRUE, senders |-> <<>>, session |-> session,
          opened |-> 0, dropped |-> 0]
    ELSE LET c == ensure_connected(session, fault)
         IN IF ~c.res.ok
            THEN [ok |-> FALSE, senders |-> <<>>, session |-> c.session,
                  opened |-> 0, dropped |-> 0]
            ELSE IF ~fetch_ok
                 THEN [ok |-> FALSE, senders |-> <<>>, session |-> TRUE,
                       opened |-> c.opened, dropped |-> 0]
                 ELSE [ok |-> TRUE,
                       senders |-> collect_senders(FetchItems(uids, itemfault)),
                       session |-> TRUE, opened |-> c.opened, dropped |-> 0]

\* scanner.rs ScanWorker::scan_batch: the result, the worker's session
\* afterwards, and the sessions opened and dropped by the call.  A failed
\* fetch returns while the session is taken out of the worker, which drops
\* it without a logout.
scan_batch(session, uids, fault, fetch_ok, itemfault) ==
    IF uids = <<>>
    THEN [ok |-> TRUE, senders |-> <<>>, session |-> session,
          opened |-> 0, dropped |-> 0]
    ELSE LET c == ensure_connected(session, fault)
         IN IF ~c.res.ok
            THEN [ok |-> FALSE, senders |-> <<>>, session |-> c.session,
                  opened |-> 0, dropped |-> 0]
            ELSE IF ~fetch_ok
                 THEN [ok |-> FALSE, senders |-> <<>>, session |-> FALSE,
                       opened |-> c.opened, dropped |-> 1]
                 ELSE [ok |-> TRUE,
                       senders |-> collect_senders(FetchItems(uids, itemfault)),
                       session |-> TRUE, opened |-> c.opened, dropped |-> 0]

\* what the environment can do to one scan_batch call of worker w: fail the
\* connect (if the worker has to connect), fail the fetch, or spoil items
BatchEnvs(w) ==
    LET AllOk == [u \in Range(w.chunk) |-> "ok"]
    IN {[fault |-> f, fetch_ok |-> TRUE, itemfault |-> AllOk] :
          f \in IF w.session THEN {} ELSE ConnectFaults \ {"none"}}
       \cup {[fault |-> "none", fetch_ok |-> FALSE, itemfault |-> AllOk]}
       \cup {[fault |-> "none", fetch_ok |-> TRUE, itemfault |-> i] :
               i \in [Range(w.chunk) -> ItemFaults]}

\* WorkerRecv with a fault: the job is read but stays on the channel
WorkerRecv_Peek ==
    /\ pc = "rs_collect"
    /\ job_q # <<>>
    /\ \E w \in BagToSet(workers) :
         /\ w.pc = "recv"
         /\ workers' = BagReplace(workers, w,
                                  [w EXCEPT !.pc = "busy", !.chunk = Head(job_q)])
    /\ UNCHANGED <<parseVars, connVars, appVars, deleteVars, mailbox,
                   scan_depth, pc, events, enum_session, all_uids,
                   total_emails, uids_to_scan, num_chunks, job_q, result_q,
                   sender_map, completed_batches, batch_log>>

(***************************************************************************)
(* scanner.rs run_scan, line 172: a worker takes the next job.             *)
(***************************************************************************)
WorkerRecv ==
    /\ pc = "rs_collect"
    /\ job_q # <<>>
    /\ \E w \in BagToSet(workers) :
         /\ w.pc = "recv"
         /\ workers' = BagReplace(workers, w,
                                  [w EXCEPT !.pc = "busy", !.chunk = Head(job_q)])
    /\ job_q' = Tail(job_q)
    /\ UNCHANGED <<parseVars, connVars, appVars, deleteVars, mailbox, scan_depth, pc, events,
                   enum_session, all_uids, total_emails, uids_to_scan,
                   num_chunks, result_q, sender_map, completed_batches,
                   batch_log>>

\* WorkerScan with a fault: a failed chunk ends the whole scan with an error
WorkerScan_FailFast ==
    /\ pc = "rs_collect"
    /\ Len(result_q) < num_chunks + 10
    /\ \E w \in BagToSet(workers) :
         /\ w.pc = "busy"
         /\ \E env \in BatchEnvs(w) :
              LET r == scan_batch(w.session, w.chunk, env.fault, env.fetch_ok,
                                  env.itemfault)
              IN /\ result_q' = Append(result_q,
                                       IF r.ok THEN r.senders ELSE <<>>)
                 /\ workers' = BagReplace(workers, w,
                                 [w EXCEPT !.pc = "recv", !.chunk = <<>>,
                                           !.session = r.session,
                                           !.opened = @ + r.opened,
                                           !.dropped = @ + r.dropped])
                 /\ batch_log' = batch_log \cup
                      {[uids |-> w.chunk, ok |-> r.ok,
                        lost |-> {u \in Range(w.chunk) :
                                    env.itemfault[u] # "ok"}]}
                 /\ IF r.ok THEN UNCHANGED <<pc, events>>
                    ELSE /\ pc' = "hs_done"
                         /\ events' = Append(events, ScanError("Imap"))
    /\ UNCHANGED <<parseVars, connVars, appVars, deleteVars, mailbox, scan_depth,
                   enum_session, all_uids, total_emails, uids_to_scan,
                   num_chunks, job_q, sender_map, completed_batches>>

(***************************************************************************)
(* scanner.rs run_scan, lines 173-186: the worker scans its chunk and      *)
(* sends the senders, or an empty list after an error, to the aggregator.  *)
(* The result channel holds num_chunks + 10 messages.                      *)
(***************************************************************************)
WorkerScan ==
    /\ pc = "rs_collect"
    /\ Len(result_q) < num_chunks + 10
    /\ \E w \in BagToSet(workers) :
         /\ w.pc = "busy"
         /\ \E env \in BatchEnvs(w) :
              LET r == scan_batch(w.session, w.chunk, env.fault, env.fetch_ok,
                                  env.itemfault)
              IN /\ result_q' = Append(result_q,
                                       IF r.ok THEN r.senders ELSE <<>>)
                 /\ workers' = BagReplace(workers, w,
                                 [w EXCEPT !.pc = "recv", !.chunk = <<>>,
                                           !.session = r.session,
                                           !.opened = @ + r.opened,
                                           !.dropped = @ + r.dropped])
                 /\ batch_log' = batch_log \cup
                      {[uids |-> w.chunk, ok |-> r.ok,
                        lost |-> {u \in Range(w.chunk) :
                                    env.itemfault[u] # "ok"}]}
    /\ UNCHANGED <<parseVars, connVars, appVars, deleteVars, mailbox, scan_depth, pc, events,
                   enum_session, all_uids, total_emails, uids_to_scan,
                   num_chunks, job_q, sender_map, completed_batches>>

\* WorkerExit with a fault: the job channel was left open, a worker that
\* finds it empty goes on waiting
WorkerExit_KeepsWaiting ==
    /\ pc = "rs_collect"
    /\ job_q = <<>>
    /\ \E w \in BagToSet(workers) : w.pc = "recv"
    /\ UNCHANGED vars

(***************************************************************************)
(* scanner.rs run_scan, lines 172 and 188-192: the job channel is closed   *)
(* and empty, the worker logs out of its session, if it has one, and ends. *)
(***************************************************************************)
WorkerExit ==
    /\ pc = "rs_collect"
    /\ job_q = <<>>
    /\ \E w \in BagToSet(workers) :
         /\ w.pc = "recv"
         /\ workers' = BagReplace(workers, w,
                         [w EXCEPT !.pc = "done", !.session = FALSE,
                                   !.closed = IF w.session THEN @ + 1 ELSE @])
    /\ UNCHANGED <<parseVars, connVars, appVars, deleteVars, mailbox, scan_depth, pc, events,
                   enum_session, all_uids, total_emails, uids_to_scan,
                   num_chunks, job_q, result_q, sender_map,
                   completed_batches, batch_log>>

\* Progress with a fault: the share of the chunks still to come
Progress_Remaining(completed, chunks) ==
    RAdd(INITIAL_PROGRESS,
         RMul(RSub(One, INITIAL_PROGRESS), Rat(chunks - completed, chunks)))

\* scanner.rs run_scan, line 207
Progress(completed, chunks) ==
    RAdd(INITIAL_PROGRESS,
         RMul(RSub(One, INITIAL_PROGRESS), Rat(completed, chunks)))

(***************************************************************************)
(* scanner.rs run_scan, lines 201-209: the aggregator takes one result,    *)
(* counts its senders and reports progress.                                *)
(***************************************************************************)
RS_Collect ==
    /\ pc = "rs_collect"
    /\ result_q # <<>>
    /\ sender_map' = Tally(sender_map, Head(result_q))
    /\ result_q' = Tail(result_q)
    /\ completed_batches' = completed_batches + 1
    /\ events' = Append(events,
                        ScanProgress(Progress(completed_batches + 1, num_chunks)))
    /\ UNCHANGED <<parseVars, connVars, appVars, deleteVars, mailbox, scan_depth, pc,
                   enum_session, all_uids, total_emails, uids_to_scan,
                   num_chunks, job_q, workers, batch_log>>

(***************************************************************************)
(* scanner.rs run_scan, lines 201 and 211-217, bridge.rs 154-160: every    *)
(* worker has ended (all senders of the result channel are dropped) and    *)
(* the channel is empty; the result is sorted and sent as ScanComplete.    *)
(***************************************************************************)
RS_Finish ==
    /\ pc = "rs_collect"
    /\ result_q = <<>>
    /\ \A w \in BagToSet(workers) : w.pc = "done"
    /\ \E sorted \in SortedSenders(sender_map) :
         events' = Append(events, ScanComplete(sorted, total_emails))
    /\ pc' = "hs_done"
    /\ UNCHANGED <<parseVars, connVars, appVars, deleteVars, mailbox, scan_depth,
                   enum_session, all_uids, total_emails, uids_to_scan,
                   num_chunks, job_q, workers, result_q, sender_map,
                   completed_batches, batch_log>>

(***************************************************************************)
(* Specifications of the scan.                                             *)
(***************************************************************************)
\* the whole scan, with the worker pool, on small folders
InitScan ==
    /\ ParseIdle
    /\ ConnIdle
    /\ AppIdle
    /\ mailbox \in UNION {[1..t -> ScanHeaders] : t \in 0..MaxFolder}
    /\ scan_depth \in 0..(MaxFolder - 1)
    /\ pc = "hs_start"
    /\ ScanFresh
    /\ DeleteIdle

NextScan ==
    \/ HS_Begin
    \/ FA_Connect
    \/ FA_Search
    \/ FA_Logout
    \/ HS_Slice
    \/ RS_Start
    \/ WorkerRecv
    \/ WorkerScan
    \/ WorkerExit
    \/ RS_Collect
    \/ RS_Finish

Spec == InitScan /\ [][NextScan]_vars

\* the whole scan on folders whose messages all have the same sender
InitPool ==
    /\ ParseIdle
    /\ ConnIdle
    /\ AppIdle
    /\ mailbox \in {[u \in 1..t |-> HdrAngle] : t \in 0..MaxFolder}
    /\ scan_depth \in 0..(MaxFolder - 1)
    /\ pc = "hs_start"
    /\ ScanFresh
    /\ DeleteIdle

SpecPool == InitPool /\ [][NextScan]_vars

\* scans of whole folders under the scheduling of the runtime: ready
\* tasks are run and every protocol call returns, so a step of the scan
\* is taken whenever one is possible
InitLive ==
    /\ ParseIdle
    /\ ConnIdle
    /\ AppIdle
    /\ mailbox \in {[u \in 1..t |-> HdrAngle] : t \in 0..MaxLive}
    /\ scan_depth = 0
    /\ pc = "hs_start"
    /\ ScanFresh
    /\ DeleteIdle

SpecPoolLive == InitLive /\ [][NextScan]_vars /\ WF_vars(NextScan)

(***************************************************************************)
(* One scan_batch call of a ScanWorker (scanner.rs lines 87-130) on a      *)
(* chunk of up to MaxChunk messages with any of the stored headers; the    *)
(* worker is new or holds the session of an earlier call.  The value       *)
(* returned is appended to result_q (the empty list for an Err).           *)
(***************************************************************************)
ScanBatchCall ==
    /\ pc = "off"
    /\ \E w \in BagToSet(workers) :
         /\ w.pc = "busy"
         /\ \E env \in BatchEnvs(w) :
              LET r == scan_batch(w.session, w.chunk, env.fault, env.fetch_ok,
                                  env.itemfault)
              IN /\ result_q' = Append(result_q, r.senders)
                 /\ workers' = BagReplace(workers, w,
                                 [w EXCEPT !.pc = "recv", !.chunk = <<>>,
                                           !.session = r.session,
                                           !.opened = @ + r.opened,
                                           !.dropped = @ + r.dropped])
                 /\ batch_log' = batch_log \cup
                      {[uids |-> w.chunk, ok |-> r.ok,
                        lost |-> {u \in Range(w.chunk) :
                                    env.itemfault[u] # "ok"}]}
    /\ UNCHANGED <<parseVars, connVars, appVars, deleteVars, mailbox, scan_depth, pc, events,
                   enum_session, all_uids, total_emails, uids_to_scan,
                   num_chunks, job_q, sender_map, completed_batches>>

InitBatch ==
    /\ ParseIdle
    /\ ConnIdle
    /\ AppIdle
    /\ mailbox \in UNION {[1..t -> BatchHeaders] : t \in 1..MaxChunk}
    /\ scan_depth = 0
    /\ pc = "off"
    /\ events = <<>>
    /\ enum_session = "none"
    /\ all_uids = <<>>
    /\ total_emails = 0
    /\ uids_to_scan = <<>>
    /\ num_chunks = 0
    /\ job_q = <<>>
    /\ \E held \in BOOLEAN :
         workers = SetToBag({[NewWorker EXCEPT
                                !.pc = "busy",
                                !.chunk = Ascending(DOMAIN mailbox),
                                !.session = held,
                                !.opened = IF held THEN 1 ELSE 0]})
    /\ result_q = <<>>
    /\ sender_map = EmptyMap
    /\ completed_batches = 0
    /\ batch_log = {}
    /\ DeleteIdle

NextBatch == ScanBatchCall

SpecBatch == InitBatch /\ [][NextBatch]_vars

\* the sequential part of the scan up to the filled job channel, on
\* folders large enough for every chunk size
InitPlan ==
    /\ ParseIdle
    /\ ConnIdle
    /\ AppIdle
    /\ mailbox \in {[u \in 1..t |-> HdrAngle] : t \in 0..MaxTotal}
    /\ scan_depth \in 0..(MaxTotal + 1)
    /\ pc = "hs_start"
    /\ ScanFresh
    /\ DeleteIdle

NextPlan ==
    \/ HS_Begin
    \/ FA_Connect
    \/ FA_Search
    \/ FA_Logout
    \/ HS_Slice
    \/ RS_Start

SpecPlan == InitPlan /\ [][NextPlan]_vars

(***************************************************************************)
(* The delete operation: bridge.rs handle_delete, deleter.rs nuke_sender.  *)
(***************************************************************************)
\* the status text of a DeleteProgress is "Purging <sender>..." or
\* "Completed <n>/<total>"
DeleteProgress(p, status) ==
    [type |-> "DeleteProgress", progress |-> p, status |-> status]
Purging(sender) == [text |-> "Purging", sender |-> sender, n |-> 0]
Completed(n) == [text |-> "Completed", sender |-> <<>>, n |-> n]
DeleteComplete(r, t) ==
    [type |-> "DeleteComplete", removed_senders |-> r, total_removed |-> t]
DeleteError(sender, e) == [type |-> "DeleteError", sender |-> sender, msg |-> e]

\* provider.rs ImapProvider::from_email, the trash_folder of the result,
\* on the domains of the model
trash_folder(domain) ==
    CASE domain = "outlook.com" -> "Deleted"
      [] domain = "yahoo.com" -> "Trash"
      [] domain = "icloud.com" -> "Deleted Messages"
      [] OTHER -> "[Gmail]/Trash"

\* deleter.rs connect_imap: as imap/mod.rs connect_imap, but the transport
\* connect is awaited without a timeout
DelConnectFaults == {"none", "tcp", "tcp_timeout", "tls", "login", "select"}

del_connect_imap(fault) ==
    LET r == del_connect_stages(FaultEnv(fault))
    IN [ok |-> r.ok, err |-> r.err, hung |-> r.hung]

\* deleter.rs nuke_sender, line 45: format!("FROM \"{}\"", sender)
search_query(sender) ==
    <<"F", "R", "O", "M", " ", "\"">> \o sender \o <<"\"">>

\* deleter.rs nuke_sender, line 60
CHUNK_SIZE == 1000

\* a command as the server receives it
Cmd(op, query, uids, dest) ==
    [op |-> op, query |-> query, uids |-> uids, dest |-> dest]

\* the text between the opening quote of FROM "..." and the end quote
QueryAddress(q) == SubSeq(q, 7, Len(q) - 1)

\* the server accepts a quoted search string only if no quote is inside
WellFormed(q) == \A i \in 1..Len(QueryAddress(q)) : QueryAddress(q)[i] # "\""

\* the messages the server finds for an accepted query
SearchResult(q) ==
    IF QueryAddress(q) \in DOMAIN owned
    THEN owned[QueryAddress(q)] \cap folder
    ELSE {}

OkCount(n) == [ok |-> TRUE, err |-> "none", count |-> n]
ErrRes(kind) == [ok |-> FALSE, err |-> kind, count |-> 0]

\* HandleReturn with a fault: a failed sender is recorded as removed
HandleReturn_KeepsFailed(res) ==
    LET sender == senders[idx + 1]
        after == DeleteProgress(Rat(idx + 1, Len(senders)), Completed(idx + 1))
    IN /\ returns' = Append(returns, res)
       /\ total_removed' = total_removed + res.count
       /\ removed_senders' = Append(removed_senders, sender)
       /\ events' = IF res.ok THEN events \o <<after>>
                    ELSE events \o <<DeleteError(sender, res.err), after>>
       /\ idx' = idx + 1
       /\ dpc' = "hd_loop"

\* bridge.rs handle_delete, lines 194-212: the match on nuke_sender's
\* result and the progress report after the sender
HandleReturn(res) ==
    LET sender == senders[idx + 1]
        after == DeleteProgress(Rat(idx + 1, Len(senders)), Completed(idx + 1))
    IN /\ returns' = Append(returns, res)
       /\ IF res.ok
          THEN /\ total_removed' = total_removed + res.count
               /\ removed_senders' = Append(removed_senders, sender)
               /\ events' = events \o <<after>>
          ELSE /\ events' = events \o <<DeleteError(sender, res.err), after>>
               /\ UNCHANGED <<total_removed, removed_senders>>
       /\ idx' = idx + 1
       /\ dpc' = "hd_loop"

\* HD_Begin with a fault: the purge of the next sender is started without
\* waiting for the running one to return
HD_Begin_Eager ==
    /\ dpc \in {"hd_loop", "ns_search", "ns_chunk", "ns_expunge"}
    /\ idx < Len(senders)
    /\ events' = Append(events, DeleteProgress(Rat(idx, Len(senders)),
                                                Purging(senders[idx + 1])))
    /\ del_session' = "none"
    /\ uid_vec' = <<>>
    /\ done_chunks' = 0
    /\ cmds' = <<>>
    /\ dpc' = "ns_connect"
    /\ UNCHANGED <<parseVars, connVars, appVars, mailbox, scan_depth, pc, enum_session,
                   all_uids, total_emails, uids_to_scan, num_chunks, job_q,
                   workers, result_q, sender_map, completed_batches, batch_log>>
    /\ UNCHANGED <<owned, folder, flagged, trash, account, senders, mode, idx,
                   total_removed, removed_senders, returns>>

(***************************************************************************)
(* bridge.rs handle_delete, lines 188-194: report progress for the next    *)
(* sender and call nuke_sender.                                            *)
(***************************************************************************)
HD_Begin ==
    /\ dpc = "hd_loop"
    /\ idx < Len(senders)
    /\ events' = Append(events, DeleteProgress(Rat(idx, Len(senders)),
                                                Purging(senders[idx + 1])))
    /\ del_session' = "none"
    /\ uid_vec' = <<>>
    /\ done_chunks' = 0
    /\ cmds' = <<>>
    /\ dpc' = "ns_connect"
    /\ UNCHANGED <<parseVars, connVars, appVars, mailbox, scan_depth, pc, enum_session, all_uids,
                   total_emails, uids_to_scan, num_chunks, job_q, workers,
                   result_q, sender_map, completed_batches, batch_log>>
    /\ UNCHANGED <<owned, folder, flagged, trash, account, senders, mode, idx,
                   total_removed, removed_senders, returns>>

\* HD_Complete with a fault: DeleteComplete is sent only if a sender was
\* removed
HD_Complete_OnlyIfRemoved ==
    /\ dpc = "hd_loop"
    /\ idx = Len(senders)
    /\ events' = IF removed_senders = <<>> THEN events
                 ELSE Append(events,
                             DeleteComplete(removed_senders, total_removed))
    /\ dpc' = "hd_done"
    /\ UNCHANGED <<parseVars, connVars, appVars, mailbox, scan_depth, pc,
                   enum_session, all_uids, total_emails, uids_to_scan,
                   num_chunks, job_q, workers, result_q, sender_map,
                   completed_batches, batch_log>>
    /\ UNCHANGED <<owned, folder, flagged, trash, account, senders, mode, idx,
                   total_removed, removed_senders, del_session, uid_vec,
                   done_chunks, cmds, returns>>

(***************************************************************************)
(* bridge.rs handle_delete, lines 215-218: after the last sender.          *)
(***************************************************************************)
HD_Complete ==
    /\ dpc = "hd_loop"
    /\ idx = Len(senders)
    /\ events' = Append(events, DeleteComplete(removed_senders, total_removed))
    /\ dpc' = "hd_done"
    /\ UNCHANGED <<parseVars, connVars, appVars, mailbox, scan_depth, pc, enum_session, all_uids,
                   total_emails, uids_to_scan, num_chunks, job_q, workers,
                   result_q, sender_map, completed_batches, batch_log>>
    /\ UNCHANGED <<owned, folder, flagged, trash, account, senders, mode, idx,
                   total_removed, removed_senders, del_session, uid_vec,
                   done_chunks, cmds, returns>>

(***************************************************************************)
(* deleter.rs nuke_sender, line 41: open the session.  A transport that    *)
(* never answers leaves the call waiting (no timeout in this connect).     *)
(***************************************************************************)
NS_Connect ==
    /\ dpc = "ns_connect"
    /\ \E fault \in DelConnectFaults :
         LET r == del_connect_imap(fault)
         IN CASE r.hung ->
                   /\ dpc' = "ns_hung"
                   /\ UNCHANGED <<events, idx, total_removed, removed_senders,
                                  returns, del_session>>
              [] r.ok ->
                   /\ del_session' = "open"
                   /\ dpc' = "ns_search"
                   /\ UNCHANGED <<events, idx, total_removed, removed_senders,
                                  returns>>
              [] OTHER ->
                   /\ HandleReturn(ErrRes(r.err))
                   /\ UNCHANGED del_session
    /\ UNCHANGED <<parseVars, connVars, appVars, mailbox, scan_depth, pc, enum_session, all_uids,
                   total_emails, uids_to_scan, num_chunks, job_q, workers,
                   result_q, sender_map, completed_batches, batch_log>>
    /\ UNCHANGED <<owned, folder, flagged, trash, account, senders, mode,
                   uid_vec, done_chunks, cmds>>

(***************************************************************************)
(* deleter.rs nuke_sender, lines 45-57: search the sender's messages.  An  *)
(* error returns at once (the session is dropped, not logged out).         *)
(***************************************************************************)
NS_Search ==
    /\ dpc = "ns_search"
    /\ LET q == search_query(senders[idx + 1])
       IN /\ cmds' = Append(cmds, Cmd("search", q, <<>>, ""))
          /\ \/ /\ WellFormed(q)
                /\ \E order \in Orders :
                     uid_vec' = Collect(SearchResult(q), order)
                /\ dpc' = IF SearchResult(q) = {} THEN "ns_logout" ELSE "ns_chunk"
                /\ UNCHANGED <<events, idx, total_removed, removed_senders,
                               returns, del_session>>
             \/ /\ HandleReturn(ErrRes("Imap"))
                /\ del_session' = "dropped"
                /\ UNCHANGED uid_vec
    /\ UNCHANGED <<parseVars, connVars, appVars, mailbox, scan_depth, pc, enum_session, all_uids,
                   total_emails, uids_to_scan, num_chunks, job_q, workers,
                   result_q, sender_map, completed_batches, batch_log>>
    /\ UNCHANGED <<owned, folder, flagged, trash, account, senders, mode,
                   done_chunks>>

\* deleter.rs nuke_sender, line 61: the chunk the loop is at
CurrentChunk == chunks_of(uid_vec, CHUNK_SIZE)[done_chunks + 1]

\* AfterChunk with a fault: the loop ends after its first chunk
AfterChunk_FirstOnly == "ns_logout"

\* where the loop of nuke_sender goes after a finished chunk
AfterChunk ==
    IF done_chunks + 1 < Len(chunks_of(uid_vec, CHUNK_SIZE))
    THEN "ns_chunk" ELSE "ns_logout"

(***************************************************************************)
(* deleter.rs nuke_sender, lines 61-79: the first command of a chunk:      *)
(* uid_mv to the trash folder, or uid_store +FLAGS (\Deleted).             *)
(***************************************************************************)
NS_Chunk ==
    /\ dpc = "ns_chunk"
    /\ IF mode = "Trash"
       THEN /\ cmds' = Append(cmds, Cmd("mv", <<>>, CurrentChunk,
                                        trash_folder(account)))
            /\ \/ /\ folder' = folder \ Range(CurrentChunk)
                  /\ flagged' = flagged \ Range(CurrentChunk)
                  /\ trash' = trash \cup (Range(CurrentChunk) \cap folder)
                  /\ done_chunks' = done_chunks + 1
                  /\ dpc' = AfterChunk
                  /\ UNCHANGED <<events, idx, total_removed, removed_senders,
                                 returns, del_session>>
               \/ /\ HandleReturn(ErrRes("Imap"))
                  /\ del_session' = "dropped"
                  /\ UNCHANGED <<folder, flagged, trash, done_chunks>>
       ELSE /\ cmds' = Append(cmds, Cmd("store", <<>>, CurrentChunk, ""))
            /\ \/ /\ flagged' = flagged \cup (Range(CurrentChunk) \cap folder)
                  /\ dpc' = "ns_expunge"
                  /\ UNCHANGED <<events, idx, total_removed, removed_senders,
                                 returns, del_session>>
               \/ /\ HandleReturn(ErrRes("Imap"))
                  /\ del_session' = "dropped"
                  /\ UNCHANGED flagged
            /\ UNCHANGED <<folder, trash, done_chunks>>
    /\ UNCHANGED <<parseVars, connVars, appVars, mailbox, scan_depth, pc, enum_session, all_uids,
                   total_emails, uids_to_scan, num_chunks, job_q, workers,
                   result_q, sender_map, completed_batches, batch_log>>
    /\ UNCHANGED <<owned, account, senders, mode, uid_vec>>

\* NS_Expunge with a fault: the chunks are only marked, one expunge follows
\* the last chunk
NS_Expunge_Deferred ==
    /\ dpc = "ns_expunge"
    /\ IF done_chunks + 1 < Len(chunks_of(uid_vec, CHUNK_SIZE))
       THEN /\ done_chunks' = done_chunks + 1
            /\ dpc' = "ns_chunk"
            /\ UNCHANGED <<cmds, folder, flagged, events, idx, total_removed,
                           removed_senders, returns, del_session>>
       ELSE /\ cmds' = Append(cmds, Cmd("expunge", <<>>, <<>>, ""))
            /\ \/ /\ folder' = folder \ flagged
                  /\ flagged' = {}
                  /\ done_chunks' = done_chunks + 1
                  /\ dpc' = AfterChunk
                  /\ UNCHANGED <<events, idx, total_removed, removed_senders,
                                 returns, del_session>>
               \/ /\ HandleReturn(ErrRes("Imap"))
                  /\ del_session' = "dropped"
                  /\ UNCHANGED <<folder, flagged, done_chunks>>
    /\ UNCHANGED <<parseVars, connVars, appVars, mailbox, scan_depth, pc, enum_session,
                   all_uids, total_emails, uids_to_scan, num_chunks, job_q,
                   workers, result_q, sender_map, completed_batches, batch_log>>
    /\ UNCHANGED <<owned, trash, account, senders, mode, uid_vec>>

(***************************************************************************)
(* deleter.rs nuke_sender, lines 81-86: expunge after the chunk was        *)
(* flagged.  EXPUNGE removes every message of the folder that carries the  *)
(* \Deleted flag.                                                          *)
(***************************************************************************)
NS_Expunge ==
    /\ dpc = "ns_expunge"
    /\ cmds' = Append(cmds, Cmd("expunge", <<>>, <<>>, ""))
    /\ \/ /\ folder' = folder \ flagged
          /\ flagged' = {}
          /\ done_chunks' = done_chunks + 1
          /\ dpc' = AfterChunk
          /\ UNCHANGED <<events, idx, total_removed, removed_senders, returns,
                         del_session>>
       \/ /\ HandleReturn(ErrRes("Imap"))
          /\ del_session' = "dropped"
          /\ UNCHANGED <<folder, flagged, done_chunks>>
    /\ UNCHANGED <<parseVars, connVars, appVars, mailbox, scan_depth, pc, enum_session, all_uids,
                   total_emails, uids_to_scan, num_chunks, job_q, workers,
                   result_q, sender_map, completed_batches, batch_log>>
    /\ UNCHANGED <<owned, trash, account, senders, mode, uid_vec>>

(***************************************************************************)
(* deleter.rs nuke_sender, lines 55-56 and 90-91: logout, its result is    *)
(* discarded, and return the number of identifiers found.                  *)
(***************************************************************************)
NS_Logout ==
    /\ dpc = "ns_logout"
    /\ cmds' = Append(cmds, Cmd("logout", <<>>, <<>>, ""))
    /\ \E logout_ok \in BOOLEAN :
         del_session' = IF logout_ok THEN "closed" ELSE "closed"
    /\ HandleReturn(OkCount(Len(uid_vec)))
    /\ UNCHANGED <<parseVars, connVars, appVars, mailbox, scan_depth, pc, enum_session, all_uids,
                   total_emails, uids_to_scan, num_chunks, job_q, workers,
                   result_q, sender_map, completed_batches, batch_log>>
    /\ UNCHANGED <<owned, folder, flagged, trash, account, senders, mode,
                   uid_vec, done_chunks>>

(***************************************************************************)
(* Specifications of the delete operation.                                 *)
(***************************************************************************)
AddrA == <<"a", "@", "x">>
AddrB == <<"b", "@", "x">>
AddrQ == <<"e", "v", "i", "l", "\"", "O", "R", "\"", "x">>
Addresses == {AddrA, AddrB, AddrQ}

\* the sender lists the UI can submit: non-empty, without repetition
SenderLists ==
    {l \in UNION {[1..n -> Addresses] : n \in 1..MaxSenders} :
       \A i, j \in 1..Len(l) : i # j => l[i] # l[j]}

\* a folder in which address a has count[a] messages, numbered in blocks
FolderOf(count) ==
    LET base(a) == CASE a = AddrA -> 0
                     [] a = AddrB -> count[AddrA]
                     [] OTHER -> count[AddrA] + count[AddrB]
    IN [a \in Addresses |-> (base(a) + 1)..(base(a) + count[a])]

\* delete operations over several senders on small folders
InitDelete ==
    /\ ParseIdle
    /\ ConnIdle
    /\ AppIdle
    /\ ScanIdle
    /\ \E count \in [Addresses -> 0..MaxOwn] :
         /\ owned = FolderOf(count)
         /\ folder = UNION Range(FolderOf(count))
    /\ flagged = {}
    /\ trash = {}
    /\ account = "gmail.com"
    /\ senders \in SenderLists
    /\ mode \in {"Trash", "Permanent"}
    /\ DeleteFresh
    /\ dpc = "hd_loop"

NextDelete ==
    \/ HD_Begin
    \/ HD_Complete
    \/ NS_Connect
    \/ NS_Search
    \/ NS_Chunk
    \/ NS_Expunge
    \/ NS_Logout

SpecDelete == InitDelete /\ [][NextDelete]_vars

\* the numbers of messages of the purged sender: around the multiples of
\* half a chunk
MatchCounts == {n \in 0..MaxMatch : n % (CHUNK_SIZE \div 2) \in {0, 1, 499}}

\* one sender with many messages
InitPurge ==
    /\ ParseIdle
    /\ ConnIdle
    /\ AppIdle
    /\ ScanIdle
    /\ \E n \in MatchCounts :
         /\ owned = FolderOf([a \in Addresses |->
                                CASE a = AddrA -> n [] a = AddrB -> 1 [] OTHER -> 0])
         /\ folder = 1..(n + 1)
    /\ flagged = {}
    /\ trash = {}
    /\ account \in {"gmail.com", "outlook.com"}
    /\ senders = <<AddrA>>
    /\ mode \in {"Trash", "Permanent"}
    /\ DeleteFresh
    /\ dpc = "hd_loop"

SpecPurge == InitPurge /\ [][NextDelete]_vars

\* a purge of one sender on a small folder in which some messages already
\* carry the \Deleted flag (set earlier by any client of the mailbox)
InitFlagged ==
    /\ ParseIdle
    /\ ConnIdle
    /\ AppIdle
    /\ ScanIdle
    /\ \E count \in [Addresses -> 0..MaxOwn] :
         /\ owned = FolderOf(count)
         /\ folder = UNION Range(FolderOf(count))
    /\ flagged \in SUBSET folder
    /\ trash = {}
    /\ account = "gmail.com"
    /\ senders \in {<<a>> : a \in Addresses}
    /\ mode \in {"Trash", "Permanent"}
    /\ DeleteFresh
    /\ dpc = "hd_loop"

SpecFlagged == InitFlagged /\ [][NextDelete]_vars

(***************************************************************************)
(* The UI and the background loop.  One frame of the UI (app.rs update)    *)
(* drains the event channel, then draws the side bar and the dashboard;    *)
(* at most one widget is clicked in a frame.  The text fields are taken    *)
(* as filled in (can_scan's conditions on email and password hold), the    *)
(* status texts are left out.                                              *)
(***************************************************************************)
StartScan(depth) == [type |-> "StartScan", scan_depth |-> depth]
StartDelete(list, m) == [type |-> "StartDelete", senders |-> list, mode |-> m]

\* state.rs AppState, the fields the events and the buttons work on
AppState ==
    [phase |-> phase, senders |-> state_senders, selected |-> sender_selected,
     total_emails |-> state_total, error |-> error_message,
     scan_progress |-> scan_progress, delete_progress |-> delete_progress]

\* the content of the event channel
EventRx == events

Emails(list) == {list[i].email : i \in 1..Len(list)}

\* drain_events with a fault: DeleteComplete clears the whole list
drain_event_ClearsAll(st, ev) ==
    CASE ev.type = "ScanProgress" ->
           [st EXCEPT !.scan_progress = ev.progress]
      [] ev.type = "ScanComplete" ->
           [st EXCEPT !.senders = ev.senders,
                      !.total_emails = ev.total_emails,
                      !.phase = "ScanComplete",
                      !.scan_progress = One]
      [] ev.type = "ScanError" ->
           [st EXCEPT !.error = ev.msg, !.phase = "Idle"]
      [] ev.type = "DeleteProgress" ->
           [st EXCEPT !.delete_progress = ev.progress]
      [] ev.type = "DeleteComplete" ->
           [st EXCEPT !.senders = <<>>,
                      !.selected = <<>>,
                      !.phase = "ScanComplete",
                      !.delete_progress = One]
      [] OTHER ->
           [st EXCEPT !.error = ev.msg]

\* app.rs drain_events, lines 24-67: the match on one event
drain_event(st, ev) ==
    CASE ev.type = "ScanProgress" ->
           [st EXCEPT !.scan_progress = ev.progress]
      [] ev.type = "ScanComplete" ->
           [st EXCEPT !.senders = ev.senders,
                      !.total_emails = ev.total_emails,
                      !.phase = "ScanComplete",
                      !.scan_progress = One]
      [] ev.type = "ScanError" ->
           [st EXCEPT !.error = ev.msg, !.phase = "Idle"]
      [] ev.type = "DeleteProgress" ->
           [st EXCEPT !.delete_progress = ev.progress]
      [] ev.type = "DeleteComplete" ->
           LET removed == Range(ev.removed_senders)
           IN [st EXCEPT !.senders = SelectSeq(st.senders,
                                       LAMBDA s : s.email \notin removed),
                         !.selected = [e \in DOMAIN st.selected \ removed |->
                                         st.selected[e]],
                         !.phase = "ScanComplete",
                         !.delete_progress = One]
      [] OTHER ->
           [st EXCEPT !.error = ev.msg]

\* app.rs drain_events, line 23: every event in the channel, in order
RECURSIVE drain_events(_, _)
drain_events(st, evs) ==
    IF evs = <<>> THEN st
    ELSE drain_events(drain_event(st, Head(evs)), Tail(evs))

\* sidebar.rs line 7, dashboard.rs line 8
Busy(st) == st.phase \in {"Scanning", "Deleting"}

\* dashboard.rs draw_kill_list, line 105
TOP_SENDERS == 100

\* dashboard.rs draw_kill_list, lines 102-119: the listed senders; drawing
\* a check box makes an entry (false) for a sender that has none
top_senders(st) == SubSeq(st.senders, 1, Min(Len(st.senders), TOP_SENDERS))

draw_kill_list(st) ==
    [st EXCEPT !.selected =
       [e \in DOMAIN st.selected \cup Emails(top_senders(st)) |->
          IF e \in DOMAIN st.selected THEN st.selected[e] ELSE FALSE]]

\* dashboard.rs draw_dashboard, lines 31-40 and 85: the kill list is drawn
\* only if there are senders
draw_dashboard(st) == IF st.senders = <<>> THEN st ELSE draw_kill_list(st)

\* state.rs selected_senders and selected_email_count
selected_senders(st) ==
    SelectSeq(st.senders,
              LAMBDA s : s.email \in DOMAIN st.selected /\ st.selected[s.email])

RECURSIVE CountSum(_)
CountSum(list) ==
    IF list = <<>> THEN 0 ELSE Head(list).count + CountSum(Tail(list))

selected_email_count(st) == CountSum(selected_senders(st))

\* dashboard.rs draw_kill_list, lines 133-138: the addresses of the
\* selected senders, in list order
selected_emails(st) ==
    LET sel == selected_senders(st)
    IN [i \in 1..Len(sel) |-> sel[i].email]

\* the frame's result is stored, every event present was taken
StoreState(st) ==
    /\ phase' = st.phase
    /\ state_senders' = st.senders
    /\ sender_selected' = st.selected
    /\ state_total' = st.total_emails
    /\ error_message' = st.error
    /\ scan_progress' = st.scan_progress
    /\ delete_progress' = st.delete_progress
    /\ events' = <<>>

\* what a frame of the UI leaves alone
Background ==
    <<parseVars, connVars, deleteVars, mailbox, scan_depth, pc, enum_session,
      all_uids, total_emails, uids_to_scan, num_chunks, job_q, workers,
      result_q, sender_map, completed_batches, batch_log>>

(***************************************************************************)
(* app.rs update, lines 74-91: a frame without a click.                    *)
(***************************************************************************)
UI_Frame ==
    /\ LET st == draw_dashboard(drain_events(AppState, EventRx))
       IN /\ st # AppState \/ events # <<>>
          /\ StoreState(st)
    /\ UNCHANGED <<Background, delete_mode, cmd_q, issued>>

\* UI_StartScan with a fault: the button is enabled during an operation
UI_StartScan_AlwaysEnabled ==
    /\ issued < MaxOps
    /\ LET st == drain_events(AppState, EventRx)
       IN /\ StoreState([st EXCEPT !.phase = "Scanning",
                                   !.scan_progress = Zero,
                                   !.error = "none",
                                   !.senders = <<>>,
                                   !.selected = <<>>])
          /\ cmd_q' = Append(cmd_q, StartScan(0))
          /\ issued' = issued + 1
    /\ UNCHANGED <<Background, delete_mode>>

(***************************************************************************)
(* sidebar.rs draw_sidebar, lines 40-58: a frame in which Start Scan is    *)
(* clicked.  The button is enabled if no operation is shown as running;    *)
(* the dashboard drawn after it has no senders to show.                    *)
(***************************************************************************)
UI_StartScan ==
    /\ issued < MaxOps
    /\ LET st == drain_events(AppState, EventRx)
       IN /\ ~Busy(st)
          /\ StoreState([st EXCEPT !.phase = "Scanning",
                                   !.scan_progress = Zero,
                                   !.error = "none",
                                   !.senders = <<>>,
                                   !.selected = <<>>])
          /\ cmd_q' = Append(cmd_q, StartScan(0))
          /\ issued' = issued + 1
    /\ UNCHANGED <<Background, delete_mode>>

(***************************************************************************)
(* dashboard.rs draw_kill_list, lines 112-118: a frame in which the check  *)
(* box of a listed sender is clicked.                                      *)
(***************************************************************************)
UI_Toggle ==
    /\ LET st == draw_dashboard(drain_events(AppState, EventRx))
       IN \E e \in Emails(top_senders(st)) :
            StoreState([st EXCEPT !.selected[e] = ~@])
    /\ UNCHANGED <<Background, delete_mode, cmd_q, issued>>

(***************************************************************************)
(* dashboard.rs draw_kill_list, lines 121-152: a frame in which EXECUTE is *)
(* clicked.  The button is shown if selected senders have messages and is  *)
(* enabled if no operation is shown as running.                            *)
(***************************************************************************)
UI_Execute ==
    /\ issued < MaxOps
    /\ LET st == draw_dashboard(drain_events(AppState, EventRx))
       IN /\ selected_email_count(st) > 0
          /\ ~Busy(st)
          /\ StoreState([st EXCEPT !.phase = "Deleting",
                                   !.delete_progress = Zero,
                                   !.error = "none"])
          /\ cmd_q' = Append(cmd_q, StartDelete(selected_emails(st),
                                                delete_mode))
          /\ issued' = issued + 1
    /\ UNCHANGED <<Background, delete_mode>>

\* the UI's part of appVars
uiVars == <<phase, state_senders, sender_selected, state_total, error_message,
            scan_progress, delete_progress, delete_mode, issued>>

(***************************************************************************)
(* bridge.rs background_loop, lines 68-95: the next command is received    *)
(* and its handler is spawned as a task of its own.  The model holds one   *)
(* scan task and one delete task; the scan sees the folder as it is when   *)
(* the task starts.                                                        *)
(***************************************************************************)
BG_Spawn ==
    /\ cmd_q # <<>>
    /\ cmd_q' = Tail(cmd_q)
    /\ LET cmd == Head(cmd_q)
       IN IF cmd.type = "StartScan"
          THEN /\ pc = "off"
               /\ pc' = "hs_start"
               /\ scan_depth' = cmd.scan_depth
               /\ mailbox' = [u \in DOMAIN mailbox \cap folder |-> mailbox[u]]
               /\ UNCHANGED <<senders, mode, dpc>>
          ELSE /\ dpc = "off"
               /\ dpc' = "hd_loop"
               /\ senders' = cmd.senders
               /\ mode' = cmd.mode
               /\ UNCHANGED <<pc, scan_depth, mailbox>>
    /\ UNCHANGED <<parseVars, connVars, uiVars, events, enum_session, all_uids,
                   total_emails, uids_to_scan, num_chunks, job_q, workers,
                   result_q, sender_map, completed_batches, batch_log>>
    /\ UNCHANGED <<owned, folder, flagged, trash, account, idx, total_removed,
                   removed_senders, del_session, uid_vec, done_chunks, cmds,
                   returns>>

(***************************************************************************)
(* bridge.rs handle_scan, lines 123 and 165: the task returns, its local   *)
(* state is gone.                                                          *)
(***************************************************************************)
HS_Return ==
    /\ pc = "hs_done"
    /\ pc' = "off"
    /\ enum_session' = "none"
    /\ all_uids' = <<>>
    /\ total_emails' = 0
    /\ uids_to_scan' = <<>>
    /\ num_chunks' = 0
    /\ job_q' = <<>>
    /\ workers' = EmptyBag
    /\ result_q' = <<>>
    /\ sender_map' = EmptyMap
    /\ completed_batches' = 0
    /\ batch_log' = {}
    /\ UNCHANGED <<parseVars, connVars, appVars, deleteVars, mailbox,
                   scan_depth, events>>

(***************************************************************************)
(* bridge.rs handle_delete, line 219: the task returns.                    *)
(***************************************************************************)
HD_Return ==
    /\ dpc = "hd_done"
    /\ dpc' = "off"
    /\ idx' = 0
    /\ total_removed' = 0
    /\ removed_senders' = <<>>
    /\ del_session' = "none"
    /\ uid_vec' = <<>>
    /\ done_chunks' = 0
    /\ cmds' = <<>>
    /\ returns' = <<>>
    /\ UNCHANGED <<parseVars, connVars, appVars, scanVars, owned, folder,
                   flagged, trash, account, senders, mode>>

\* the server finds a message for FROM "a" if a is the sender the scan
\* reports for it
OwnedIn(mb) ==
    [a \in {parse_fetched(Render(mb[u])) : u \in DOMAIN mb} \ {Unknown} |->
       {u \in DOMAIN mb : parse_fetched(Render(mb[u])) = a}]

\* the server's side of a folder, nothing flagged or moved yet
ServerOf(mb) ==
    /\ mailbox = mb
    /\ owned = OwnedIn(mb)
    /\ folder = DOMAIN mb
    /\ flagged = {}
    /\ trash = {}
    /\ account = "gmail.com"

\* the application after start on a folder of one message: nothing
\* scanned yet, the delete mode is the one chosen in the side bar
InitApp ==
    /\ ParseIdle
    /\ ConnIdle
    /\ AppFresh
    /\ delete_mode \in {"Trash", "Permanent"}
    /\ ServerOf(<<HdrAngle>>)
    /\ scan_depth = 0
    /\ pc = "off"
    /\ ScanFresh
    /\ senders = <<>>
    /\ mode = "Trash"
    /\ DeleteFresh
    /\ dpc = "off"

NextApp ==
    \/ UI_Frame
    \/ UI_StartScan
    \/ UI_Toggle
    \/ UI_Execute
    \/ BG_Spawn
    \/ HS_Return
    \/ HD_Return
    \/ NextScan
    \/ NextDelete

SpecApp == InitApp /\ [][NextApp]_vars

\* the application after a scan of a folder with two senders in which no
\* fetch failed: the result is shown, nothing is selected, the scan task
\* has returned
InitRetry ==
    /\ ParseIdle
    /\ ConnIdle
    /\ ServerOf(<<HdrAngle, HdrBare>>)
    /\ phase = "ScanComplete"
    /\ state_senders \in SortedSenders(
         Tally(EmptyMap, collect_senders(FetchItems(<<1, 2>>,
                                                    [u \in 1..2 |-> "ok"]))))
    /\ sender_selected = <<>>
    /\ state_total = 2
    /\ error_message = "none"
    /\ scan_progress = One
    /\ delete_progress = Zero
    /\ delete_mode \in {"Trash", "Permanent"}
    /\ cmd_q = <<>>
    /\ issued = 1
    /\ scan_depth = 0
    /\ pc = "off"
    /\ ScanFresh
    /\ senders = <<>>
    /\ mode = "Trash"
    /\ DeleteFresh
    /\ dpc = "off"

\* the user does not scan again
NextRetry ==
    \/ UI_Frame
    \/ UI_Toggle
    \/ UI_Execute
    \/ BG_Spawn
    \/ HD_Return
    \/ NextDelete

SpecRetry == InitRetry /\ [][NextRetry]_vars

(***************************************************************************)
(* Properties of the parser.                                               *)
(***************************************************************************)
\* the value of a stored From field: the field body with folding undone
\* (RFC 5322: a CRLF in front of white space is removed) and trimmed
FromValue(h) == trim(h.value)

\* the angle-bracketed parts of a value: the non-empty texts between a "<"
\* and the next ">" after it
AngleParts(v) ==
    {SubSeq(v, i + 1, j - 1) : i \in 1..Len(v), j \in 1..Len(v)} \cap
    {SubSeq(v, p[1] + 1, p[2] - 1) :
       p \in {q \in (1..Len(v)) \X (1..Len(v)) :
                /\ v[q[1]] = "<"
                /\ v[q[2]] = ">"
                /\ q[2] > q[1] + 1
                /\ \A k \in (q[1] + 1)..(q[2] - 1) : v[k] # ">"}}

SenderExtractionFor(h) ==
    LET v == FromValue(h)
    IN IF ~h.has_from \/ v = <<>>
       THEN item_out = <<>>
       ELSE IF AngleParts(v) # {}
            THEN parsed \in {to_lowercase(a) : a \in AngleParts(v)}
            ELSE parsed = to_lowercase(v)

\* C10: the sender extracted from a fetched header is the angle-bracketed
\* part of the From value, lowercased, if there is one; otherwise the
\* trimmed From value, lowercased, if it is not empty; a header without a
\* From line or with an empty From value adds no entry.
C10_SenderExtraction ==
    parsed # NotParsed => SenderExtractionFor(hdr)

\* The same statement restricted to From fields stored on a single line;
\* this one holds.
UnfoldedSenderExtraction ==
    (parsed # NotParsed /\ hdr.fold = NoFold) => SenderExtractionFor(hdr)

(***************************************************************************)
(* Properties of the delete operation.                                     *)
(***************************************************************************)
Last(sq) == sq[Len(sq)]

\* the senders whose nuke_sender call returned Ok, in list order
RECURSIVE SucceededSenders(_, _)
SucceededSenders(list, res) ==
    IF list = <<>> \/ res = <<>> THEN <<>>
    ELSE (IF Head(res).ok THEN <<Head(list)>> ELSE <<>>)
         \o SucceededSenders(Tail(list), Tail(res))

\* the sum of the counts of the calls that returned Ok
RECURSIVE SucceededCount(_)
SucceededCount(res) ==
    IF res = <<>> THEN 0
    ELSE (IF Head(res).ok THEN Head(res).count ELSE 0)
         + SucceededCount(Tail(res))

\* the senders named by the "Purging ..." progress reports, in order
PurgeAttempts ==
    LET started == SelectSeq(events,
                     LAMBDA e : /\ e.type = "DeleteProgress"
                                /\ e.status.text = "Purging")
    IN [i \in 1..Len(started) |-> started[i].status.sender]

\* C1: the delete operation attempts every sender in list order, goes on
\* after a failure, and ends with DeleteComplete whose removed_senders are
\* exactly the senders whose purge succeeded, in list order, and whose
\* total_removed is the sum of the counts those purges returned.
C1_DeleteResult ==
    dpc = "hd_done" =>
      /\ PurgeAttempts = senders
      /\ Len(returns) = Len(senders)
      /\ Last(events) = DeleteComplete(SucceededSenders(senders, returns),
                                       SucceededCount(returns))
      /\ \A i \in 1..(Len(events) - 1) : events[i].type # "DeleteComplete"

\* a delete of three senders, the second failed, the third removed mail
C1_Witness ==
    /\ dpc = "hd_done"
    /\ Len(senders) = 3
    /\ returns[1].ok
    /\ ~returns[2].ok
    /\ returns[3].ok
    /\ returns[3].count > 0

\* the number of double quotes in a text
RECURSIVE Quotes(_)
Quotes(t) ==
    IF t = <<>> THEN 0
    ELSE (IF Head(t) = "\"" THEN 1 ELSE 0) + Quotes(Tail(t))

\* C8: the address embedded in the search query has no double quote left:
\* the query holds exactly the two delimiting quotes.
C8_QuerySanitized ==
    \A i \in 1..Len(cmds) :
      cmds[i].op = "search" => Quotes(cmds[i].query) = 2

(***************************************************************************)
(* Properties of nuke_sender on one sender.                                *)
(***************************************************************************)
\* the commands of the call between the search and the logout
ChunkOps == SelectSeq(cmds, LAMBDA c : c.op \notin {"search", "logout"})

RECURSIVE Flatten(_)
Flatten(ss) == IF ss = <<>> THEN <<>> ELSE Head(ss) \o Flatten(Tail(ss))

CeilDiv(a, b) == (a + b - 1) \div b

\* C7: a purge in which no command fails issues ceil(n/1000) chunk
\* operations of at most 1000 identifiers that cover the n found
\* identifiers once each, and returns n; a chunk operation is one move to
\* the provider's trash folder (MoveToTrash) or a mark directly followed by
\* an expunge (PermanentDelete); nothing is issued for n = 0.
C7_ChunkOperations ==
    (dpc \in {"hd_loop", "hd_done"} /\ Len(returns) = 1 /\ returns[1].ok) =>
      LET n == Cardinality(owned[senders[1]])
          k == CeilDiv(n, 1000)
          first == SelectSeq(ChunkOps, LAMBDA c : c.op # "expunge")
      IN /\ returns[1].count = n
         /\ Len(first) = k
         /\ \A i \in 1..k : Len(first[i].uids) <= 1000
         /\ Len(Flatten([i \in 1..k |-> first[i].uids])) = n
         /\ Range(Flatten([i \in 1..k |-> first[i].uids])) = owned[senders[1]]
         /\ IF mode = "Trash"
            THEN /\ Len(ChunkOps) = k
                 /\ \A i \in 1..k :
                      /\ ChunkOps[i].op = "mv"
                      /\ ChunkOps[i].dest = trash_folder(account)
            ELSE /\ Len(ChunkOps) = 2 * k
                 /\ \A i \in 1..k :
                      /\ ChunkOps[2 * i - 1].op = "store"
                      /\ ChunkOps[2 * i].op = "expunge"

\* a permanent delete of 1500 messages: chunks of 1000 and 500
C7_Witness ==
    /\ dpc = "hd_done"
    /\ returns[1].ok
    /\ returns[1].count = 1500
    /\ mode = "Permanent"
    /\ Len(ChunkOps) = 4
    /\ Len(ChunkOps[1].uids) = 1000
    /\ Len(ChunkOps[3].uids) = 500

(***************************************************************************)
(* Properties of the scan.                                                 *)
(***************************************************************************)
\* C2: the chunks put on the job channel are non-empty, pairwise disjoint
\* and contiguous: in order they concatenate to the identifiers given to
\* the scan.
C2_Partition ==
    pc = "rs_collect" =>
      /\ Len(job_q) = num_chunks
      /\ \A c \in 1..Len(job_q) : job_q[c] # <<>>
      /\ Flatten(job_q) = uids_to_scan
      /\ \A c, d \in 1..Len(job_q) :
           c # d => Range(job_q[c]) \cap Range(job_q[d]) = {}

\* more than one chunk of more than one identifier, the last one shorter
C2_Witness ==
    /\ pc = "rs_collect"
    /\ Len(job_q) > MAX_CONCURRENT
    /\ Len(job_q[1]) >= 2
    /\ Len(Last(job_q)) < Len(job_q[1])

\* C3 as stated: the number of chunks never exceeds concurrency + 1.
C3_AtMostOneExtraChunk ==
    pc = "rs_collect" => num_chunks <= MAX_CONCURRENT + 1

\* C3, amended: with chunk size max(1, total / concurrency) the number of
\* chunks never exceeds 2 * concurrency - 1.
C3_ChunkCount ==
    pc = "rs_collect" => num_chunks <= 2 * MAX_CONCURRENT - 1

\* 19 identifiers make 19 chunks
C3_Witness ==
    /\ pc = "rs_collect"
    /\ Len(uids_to_scan) = 2 * MAX_CONCURRENT - 1
    /\ num_chunks = 2 * MAX_CONCURRENT - 1

\* no scan_batch call of the scan failed or lost an item
NoFetchFailed == \A b \in batch_log : b.ok /\ b.lost = {}

\* the sender of a stored message, if it has one that can be extracted
SenderOf(u) == parse_fetched(Render(mailbox[u]))
Extractable(u) == SenderOf(u) # Unknown

\* per sender, the number of messages among `uids` with that sender
CountsOver(uids) ==
    [sd \in {SenderOf(u) : u \in {v \in uids : Extractable(v)}} |->
       Cardinality({u \in uids : SenderOf(u) = sd})]

\* the mapping a ScanComplete event carries
ResultMap(list) ==
    [e \in {list[i].email : i \in 1..Len(list)} |->
       (CHOOSE i \in 1..Len(list) : list[i].email = e)]

ResultCounts(list) ==
    [e \in DOMAIN ResultMap(list) |-> list[ResultMap(list)[e]].count]

\* C4: if no fetch fails, the mapping the scan returns is the per-sender
\* count of the scanned messages with an extractable sender, whichever
\* workers took the chunks and in whatever order the results arrived.
C4_AggregateIndependent ==
    \A i \in 1..Len(events) :
      (events[i].type = "ScanComplete" /\ NoFetchFailed) =>
        /\ ResultCounts(events[i].senders) = CountsOver(Range(uids_to_scan))
        /\ Len(events[i].senders) = Cardinality(DOMAIN CountsOver(Range(uids_to_scan)))

\* a completed scan without failures in which two chunks name one sender
C4_Witness ==
    /\ pc = "hs_done"
    /\ Last(events).type = "ScanComplete"
    /\ NoFetchFailed
    /\ Cardinality(batch_log) >= 2
    /\ \E i \in 1..Len(Last(events).senders) : Last(events).senders[i].count = 2

\* the fractions of the ScanProgress events, in order
ProgressSeq ==
    LET ps == SelectSeq(events, LAMBDA e : e.type = "ScanProgress")
    IN [i \in 1..Len(ps) |-> ps[i].progress]

\* C5: the progress fractions of a scan are 0, then 0.05, then
\* 0.05 + 0.95 * k / num_chunks for the k-th aggregated chunk; they never
\* decrease and lie in [0, 1].
C5_ProgressMonotone ==
    LET ps == ProgressSeq
    IN /\ \A i \in 1..Len(ps) : RLeq(Zero, ps[i]) /\ RLeq(ps[i], One)
       /\ \A i, j \in 1..Len(ps) : i <= j => RLeq(ps[i], ps[j])
       /\ Len(ps) >= 1 => ps[1] = Zero
       /\ Len(ps) >= 2 => ps[2] = Rat(5, 100)
       /\ \A k \in 1..(Len(ps) - 2) :
            ps[2 + k] = Rat(5 * num_chunks + 95 * k, 100 * num_chunks)

\* a finished scan of two chunks, one of which failed
C5_Witness ==
    /\ pc = "hs_done"
    /\ Len(ProgressSeq) = 4
    /\ \E b \in batch_log : ~b.ok
    /\ \E b \in batch_log : b.ok

\* C6: the last ScanProgress before a ScanComplete carries fraction 1.0.
C6_ProgressEndsAtOne ==
    \A i \in 1..Len(events) :
      events[i].type = "ScanComplete" =>
        /\ ProgressSeq # <<>>
        /\ Last(ProgressSeq) = One

\* the N largest identifiers of a set
Largest(M, n) == {u \in M : Cardinality({v \in M : v > u}) < n}

\* the identifiers a scan of depth n has to cover
Covered(M, n) ==
    IF n = 0 \/ n >= Cardinality(M) THEN M ELSE Largest(M, n)

\* C9: a scan of depth N covers the whole folder if N = 0 or N >= T, else
\* exactly the N largest identifiers; ScanComplete.total_emails is T.
C9_ScanDepth ==
    /\ pc \in {"rs_start", "rs_collect"} =>
         /\ Range(uids_to_scan) = Covered(DOMAIN mailbox, scan_depth)
         /\ Len(uids_to_scan) = Cardinality(Range(uids_to_scan))
    /\ \A i \in 1..Len(events) :
         events[i].type = "ScanComplete" =>
           /\ events[i].total_emails = Cardinality(DOMAIN mailbox)
           /\ UNION {Range(b.uids) : b \in batch_log}
                = Covered(DOMAIN mailbox, scan_depth)

\* a depth-limited scan that completed although its chunk failed
C9_Witness ==
    /\ pc = "hs_done"
    /\ Last(events).type = "ScanComplete"
    /\ scan_depth > 0
    /\ scan_depth < Cardinality(DOMAIN mailbox)
    /\ \E b \in batch_log : ~b.ok

(***************************************************************************)
(* Properties of the sessions of the delete operation.                     *)
(***************************************************************************)
\* C11: whenever a nuke_sender call that opened its session has returned
\* (after an empty search result, a search error, a chunk error or normal
\* completion), the last command it issued on the session is a logout, and
\* a call that reached its logout returns the number of identifiers found
\* whether or not the logout succeeds.
C11_LogoutOnEveryExit ==
    (dpc \in {"hd_loop", "hd_done"} /\ returns # <<>> /\ cmds # <<>>)
        => /\ Last(cmds).op = "logout"
           /\ Last(returns) = OkCount(Len(uid_vec))

(***************************************************************************)
(* Properties of the sessions of the scan.                                 *)
(***************************************************************************)
\* C12: when the scan has ended, every session it opened was logged out of
\* exactly once by the unit that opened it: the enumeration session is
\* closed (or was never opened), and every worker logged out of each
\* session it opened, also after a failed search or a failed fetch.
C12_SessionsClosedOnce ==
    pc = "hs_done" =>
      /\ enum_session \in {"none", "closed"}
      /\ \A w \in BagToSet(workers) :
           w.pc = "done" /\ ~w.session /\ w.dropped = 0 /\ w.closed = w.opened

\* the enumeration of the folder failed: its session could not be opened,
\* or it was dropped by the failed search
EnumerationFailed == pc = "hs_done" /\ enum_session \in {"none", "dropped"}

\* C13: if the enumeration fails, the scan sends exactly one ScanError
\* after the first progress report and nothing else (no ScanComplete, no
\* further ScanProgress); no job is queued, no worker is started and no
\* worker session is opened.
C13_EnumerationFailureFatal ==
    EnumerationFailed =>
      /\ Len(events) = 2
      /\ events[1] = ScanProgress(Zero)
      /\ events[2].type = "ScanError"
      /\ workers = EmptyBag
      /\ job_q = <<>>
      /\ batch_log = {}

\* a scan of a non-empty folder whose search failed
C13_Witness ==
    /\ pc = "hs_done"
    /\ enum_session = "dropped"
    /\ mailbox # EmptyMap
    /\ Last(events) = ScanError("Imap")

\* the messages of the chunks whose fetch succeeded that the fetch delivered
Delivered == UNION {Range(b.uids) \ b.lost : b \in {c \in batch_log : c.ok}}

\* C14: a connect or fetch error in a scan chunk removes only that chunk
\* from the aggregate: once the enumeration has succeeded the scan sends no
\* ScanError and ends with ScanComplete, whose mapping is the per-sender
\* count over the chunks whose fetch succeeded.
C14_ChunkFailureIsolated ==
    /\ (pc \in {"hs_slice", "rs_start", "rs_collect"}
          \/ (pc = "hs_done" /\ ~EnumerationFailed)) =>
         \A i \in 1..Len(events) : events[i].type # "ScanError"
    /\ (pc = "hs_done" /\ ~EnumerationFailed) =>
         /\ Last(events).type = "ScanComplete"
         /\ ResultCounts(Last(events).senders) = CountsOver(Delivered)
         /\ Len(Last(events).senders) = Cardinality(DOMAIN CountsOver(Delivered))

\* a completed scan in which one chunk failed and another one was counted
C14_Witness ==
    /\ pc = "hs_done"
    /\ Last(events).type = "ScanComplete"
    /\ \E b \in batch_log : ~b.ok
    /\ Last(events).senders # <<>>
    /\ Delivered # Range(uids_to_scan)

(***************************************************************************)
(* Properties of opening a session.                                        *)
(***************************************************************************)
\* the first stage, in the order transport connect, TLS, login, select,
\* that the environment makes fail (0 if none does)
FirstFailing(env) ==
    IF \A k \in 1..Len(Stages) : Stages[k] \notin env.fails THEN 0
    ELSE CHOOSE k \in 1..Len(Stages) :
           /\ Stages[k] \in env.fails
           /\ \A j \in 1..(k - 1) : Stages[j] \notin env.fails

\* C15: an attempt whose transport answers runs transport connect, TLS
\* upgrade, login and select in this order up to the first failing stage
\* and returns ConnectionError, TlsError, AuthError or ProtocolError for
\* it; a failed login is never reported as a connection or TLS error; a
\* session is returned only if all four stages succeeded.
C15_StagedOpen ==
    (conn_out # NotRun /\ ~conn_in.env.hang) =>
      LET k == FirstFailing(conn_in.env)
      IN /\ ~conn_out.hung
         /\ conn_out.ok <=> k = 0
         /\ conn_out.ok => conn_out.ran = Stages /\ conn_out.err = "none"
         /\ ~conn_out.ok =>
              /\ conn_out.ran = SubSeq(Stages, 1, k)
              /\ conn_out.err = CASE k = 1 -> "Connection"
                                  [] k = 2 -> "Tls"
                                  [] k = 3 -> "Auth"
                                  [] OTHER -> "Imap"

\* an attempt of the delete operation that ended at a refused login, with a
\* select that would have failed as well
C15_Witness ==
    /\ conn_in.unit = "delete"
    /\ conn_in.env = ConnEnv({"login", "select"}, FALSE)
    /\ conn_out.ran = <<"tcp", "tls", "login">>
    /\ conn_out.err = "Auth"

\* C16: opening a session is time-bounded for every unit (enumeration,
\* scan worker, per-sender delete): if the transport connect never
\* completes, the attempt ends with an error and is not left waiting.
C16_ConnectTimeBounded ==
    (conn_out # NotRun /\ conn_in.env.hang) =>
      /\ ~conn_out.hung
      /\ ~conn_out.ok
      /\ conn_out.err = "Connection"

\* a nuke_sender call that found messages and returned an error
ChunkFailed ==
    /\ dpc \in {"hd_loop", "hd_done"}
    /\ Len(returns) = 1
    /\ ~returns[1].ok
    /\ uid_vec # <<>>
    /\ ChunkOps # <<>>

\* C17: the first chunk whose move, mark or expunge fails ends the call
\* with that error: the commands issued are those of the chunks up to the
\* failing one, in order, and nothing for a later chunk; the chunks
\* completed before it are gone from the folder (expunged in
\* PermanentDelete mode, in the trash in MoveToTrash mode).
C17_FirstChunkErrorAborts ==
    ChunkFailed =>
      LET chunks == chunks_of(uid_vec, CHUNK_SIZE)
          f == done_chunks + 1
          first == SelectSeq(ChunkOps, LAMBDA c : c.op # "expunge")
      IN /\ returns[1] = ErrRes("Imap")
         /\ f <= Len(chunks)
         /\ Last(cmds) = Last(ChunkOps)
         /\ Len(first) = f
         /\ \A i \in 1..f : first[i].uids = chunks[i]
         /\ \A i \in 1..done_chunks : Range(chunks[i]) \cap folder = {}
         /\ IF mode = "Trash"
            THEN /\ Len(ChunkOps) = f
                 /\ \A i \in 1..done_chunks : Range(chunks[i]) \subseteq trash
            ELSE /\ Len(ChunkOps) \in {2 * f - 1, 2 * f}
                 /\ \A i \in 1..Len(ChunkOps) :
                      ChunkOps[i].op = IF i % 2 = 1 THEN "store" ELSE "expunge"

\* a permanent delete of three chunks that failed in its second chunk
C17_Witness ==
    /\ ChunkFailed
    /\ mode = "Permanent"
    /\ Len(chunks_of(uid_vec, CHUNK_SIZE)) = 3
    /\ done_chunks = 1
    /\ Last(cmds).op = "store"

\* the messages the senders purged so far own
Searched == UNION {owned[senders[i]] : i \in 1..Len(returns)}

\* C18: in PermanentDelete mode the expunge after a chunk's mark removes
\* the messages of that chunk only: when nuke_sender has returned, every
\* message of the folder that was not in the sender's search result is
\* still in the folder, whatever flags the folder's messages carried.
C18_ExpungeOnlyChunk ==
    (mode = "Permanent" /\ dpc \in {"hd_loop", "hd_done"}) =>
      (UNION Range(owned)) \ Searched \subseteq folder

(***************************************************************************)
(* Properties of the order of the purges within one delete operation.      *)
(***************************************************************************)
\* the nuke_sender calls started so far: one per "Purging" report
Started ==
    Cardinality({i \in 1..Len(events) :
                   /\ events[i].type = "DeleteProgress"
                   /\ events[i].status.text = "Purging"})

\* the calls started that have not returned
InFlight == Started - Len(returns)

InPurge ==
    dpc \in {"ns_connect", "ns_search", "ns_chunk", "ns_expunge", "ns_logout",
             "ns_hung"}

\* C19: the senders of one delete operation are purged one after the
\* other: at most one nuke_sender call is running, the call for sender
\* i + 1 starts (and opens its session) only after the call for sender i
\* has returned, and a session is open or a mutation is being issued only
\* within the one running call.
C19_Sequential ==
    /\ InFlight \in {0, 1}
    /\ InPurge <=> InFlight = 1
    /\ idx = Len(returns)
    /\ InFlight = 1 => Started = idx + 1
    /\ del_session = "open" => InFlight = 1
    /\ dpc \in {"ns_chunk", "ns_expunge"} => del_session = "open"

\* the session of the second sender is open, the first purge has returned
C19_Witness ==
    /\ Len(senders) >= 2
    /\ Len(returns) = 1
    /\ returns[1].ok
    /\ del_session = "open"
    /\ dpc = "ns_chunk"

\* the sessions opened by all workers together
RECURSIVE OpenedBy(_, _)
OpenedBy(B, S) ==
    IF S = {} THEN 0
    ELSE LET w == CHOOSE x \in S : TRUE
         IN B[w] * w.opened + OpenedBy(B, S \ {w})

TotalOpened == OpenedBy(workers, BagToSet(workers))

\* a worker holds at most one session: the sessions it opened and has
\* neither dropped nor closed are the one it holds, if any; a further
\* session is opened only after a fetch failed
SessionAccounting ==
    \A w \in BagToSet(workers) :
      /\ w.opened - w.dropped - w.closed = IF w.session THEN 1 ELSE 0
      /\ w.opened <= w.dropped + 1
      /\ w.closed <= 1

\* a session is opened only by a worker that has taken a job and holds no
\* session: a step that leaves a worker with one more opened session
\* starts from that worker being busy with a chunk and without session
OpensOnlyOnJob ==
    workers' # workers =>
      \A w2 \in BagToSet(workers') :
        (w2.opened > 0 /\ CopiesIn(w2, workers') > CopiesIn(w2, workers)) =>
          \E w \in BagToSet(workers) :
            /\ workers' = BagReplace(workers, w, w2)
            /\ \/ w2.opened = w.opened
               \/ /\ w2.opened = w.opened + 1
                  /\ w.pc = "busy"
                  /\ w.chunk # <<>>
                  /\ ~w.session
                  /\ w2.pc = "recv"

\* C20: a scan worker opens a session only when it has taken a job and
\* holds none, holds at most one session at a time, and keeps its session
\* after a successful fetch: a worker whose fetches all succeed opens one
\* session however many chunks it scans, a worker without a job none.
C20_LazyReuse == [](SessionAccounting) /\ [][OpensOnlyOnJob]_vars

\* a completed scan of two chunks, both fetched over the one session that
\* was opened
C20_Witness ==
    /\ pc = "hs_done"
    /\ Cardinality(batch_log) = 2
    /\ \A b \in batch_log : b.ok
    /\ TotalOpened = 1
    /\ \E w \in BagToSet(workers) : w.opened = 1 /\ w.closed = 1

(***************************************************************************)
(* Properties of the worker pool after errors.                             *)
(***************************************************************************)
\* a chunk that has been fetched is neither on the job channel nor held by
\* a worker, and every scan_batch call was for a chunk not fetched before
FetchedOnce ==
    /\ \A b \in batch_log :
         /\ \A i \in 1..Len(job_q) : job_q[i] # b.uids
         /\ \A w \in BagToSet(workers) : w.chunk # b.uids
    /\ pc = "rs_collect" =>
         Cardinality(batch_log) = Len(result_q) + completed_batches

\* a step in which a chunk fails leaves the worker that scanned it without
\* session and without chunk, waiting for the next job
NoSessionAfterFailure ==
    (\E b \in batch_log' \ batch_log : ~b.ok) =>
      \E w \in BagToSet(workers) :
        \E w2 \in BagToSet(workers') :
          /\ w.pc = "busy"
          /\ workers' = BagReplace(workers, w, w2)
          /\ w2.pc = "recv"
          /\ w2.chunk = <<>>
          /\ ~w2.session

\* C21: after a fetch error the worker holds no session and does not fetch
\* the failed chunk again (every chunk is fetched at most once in a scan);
\* it opens a fresh session only when it has taken its next job, and none
\* if no further job arrives.
C21_PoisonedSession ==
    /\ [](FetchedOnce)
    /\ [][NoSessionAfterFailure /\ OpensOnlyOnJob]_vars

\* a worker whose first fetch failed has taken the next chunk and opened a
\* second session for it; the failed chunk was logged once
C21_Witness ==
    /\ \E w \in BagToSet(workers) :
         w.opened = 2 /\ w.dropped = 1 /\ w.session /\ w.pc = "recv"
    /\ Cardinality(batch_log) = 2
    /\ \E b \in batch_log : ~b.ok

(***************************************************************************)
(* Properties of a single scan_batch call.                                 *)
(***************************************************************************)
\* the senders a fetch of `uids` yields when the items of `lost` arrive as
\* errors or without header section
RECURSIVE SendersOf(_, _)
SendersOf(uids, lost) ==
    IF uids = <<>> THEN <<>>
    ELSE LET u == Head(uids)
             rest == SendersOf(Tail(uids), lost)
         IN IF u \notin lost /\ Extractable(u) THEN <<SenderOf(u)>> \o rest
            ELSE rest

\* C22: in a header fetch whose command succeeded, an item that arrives as
\* an error or without header body is skipped without failing the batch:
\* the result is a success, it holds the sender of every other item of the
\* chunk that has an extractable one, and the worker keeps its session.
C22_ItemErrorIsolated ==
    \A b \in batch_log :
      b.lost # {} =>
        /\ b.ok
        /\ Last(result_q) = SendersOf(b.uids, b.lost)
        /\ \A w \in BagToSet(workers) : w.session /\ w.dropped = 0

\* a chunk of at least two messages in which an item was lost and a later
\* one was still counted
C22_Witness ==
    /\ pc = "off"
    /\ \E b \in batch_log :
         /\ Len(b.uids) >= 2
         /\ b.uids[1] \in b.lost
         /\ Len(Last(result_q)) = Len(b.uids) - 1

(***************************************************************************)
(* Properties of the aggregate.                                            *)
(***************************************************************************)
RECURSIVE SumCounts(_)
SumCounts(list) ==
    IF list = <<>> THEN 0 ELSE Head(list).count + SumCounts(Tail(list))

\* the delivered messages that name a sender: the header has a From field
\* and its value is not empty
NamesSender(u) == mailbox[u].has_from /\ FromValue(mailbox[u]) # <<>>
Parsed == {u \in Delivered : NamesSender(u)}

\* the texts that stand for "no sender"
Placeholders == {Unknown, <<>>}

\* C23: in every completed scan the sum of the sender counts is at most
\* the number of headers fetched and parsed (so at most the number of
\* scanned identifiers), every count is at least 1, and no entry is keyed
\* by a placeholder for messages without extractable sender.
C23_CountsBounded ==
    \A i \in 1..Len(events) :
      events[i].type = "ScanComplete" =>
        LET list == events[i].senders
        IN /\ SumCounts(list) <= Cardinality(Parsed)
           /\ Cardinality(Parsed) <= Len(uids_to_scan)
           /\ \A k \in 1..Len(list) :
                list[k].count >= 1 /\ list[k].email \notin Placeholders

\* a completed scan in which every fetch succeeded, one message without a
\* From field was dropped and another one was counted
C23_Witness ==
    /\ pc = "hs_done"
    /\ Last(events).type = "ScanComplete"
    /\ NoFetchFailed
    /\ \E u \in Range(uids_to_scan) : ~NamesSender(u)
    /\ SumCounts(Last(events).senders) = Len(uids_to_scan) - 1
    /\ SumCounts(Last(events).senders) >= 1

(***************************************************************************)
(* Properties of the UI.                                                   *)
(***************************************************************************)
\* the UI state before and after the k-th event of the channel is handled
BeforeEvent(k) == drain_events(AppState, SubSeq(events, 1, k - 1))
AfterEvent(k) == drain_event(BeforeEvent(k), events[k])

\* the selection flag of a sender (no entry counts as not selected)
Flag(st, e) == e \in DOMAIN st.selected /\ st.selected[e]

\* the entries of a sender in the shown list
Entries(st, e) == {st.senders[i] : i \in {j \in 1..Len(st.senders) :
                                            st.senders[j].email = e}}

\* C24: handling DeleteComplete removes from the shown sender list and
\* from the selection exactly the senders of removed_senders; a sender of
\* the operation whose purge failed stays in the list with its count and
\* its selection flag, so it can be submitted again; handling DeleteError
\* leaves the phase and the sender list as they are.
C24_FailedSendersKept ==
    \A k \in 1..Len(events) :
      LET b == BeforeEvent(k)
          a == AfterEvent(k)
      IN /\ events[k].type = "DeleteComplete" =>
              LET removed == Range(events[k].removed_senders)
              IN /\ a.senders = SelectSeq(b.senders,
                                          LAMBDA s : s.email \notin removed)
                 /\ DOMAIN a.selected = DOMAIN b.selected \ removed
                 /\ \A e \in Range(senders) \ removed :
                      /\ Entries(b, e) # {}
                      /\ Entries(a, e) = Entries(b, e)
                      /\ Flag(a, e) = Flag(b, e)
         /\ events[k].type = "DeleteError" =>
              /\ a.phase = b.phase
              /\ a.senders = b.senders
              /\ a.selected = b.selected

\* the DeleteComplete of an operation on two selected senders, one purged
\* and one failed, is in the channel; the failed one is still selected
C24_Witness ==
    \E k \in 1..Len(events) :
      /\ events[k].type = "DeleteComplete"
      /\ Len(events[k].removed_senders) = 1
      /\ Len(senders) = 2
      /\ \A e \in Range(senders) \ Range(events[k].removed_senders) :
           Flag(AfterEvent(k), e) /\ Entries(AfterEvent(k), e) # {}
      /\ Len(AfterEvent(k).senders) = 1

\* a sender whose purge failed has been submitted again: the second delete
\* operation of the session is purging a sender that is still shown
ResubmittedAfterFailure ==
    /\ issued = 3
    /\ dpc = "ns_connect"
    /\ Len(state_senders) = 1
    /\ senders = <<state_senders[1].email>>
    /\ owned[senders[1]] \subseteq folder

(***************************************************************************)
(* Termination of the scan.                                                *)
(***************************************************************************)
\* the pool has started: every chunk is on the job channel, which holds
\* them all, and no worker has taken one yet
PoolStarted ==
    /\ pc = "rs_collect"
    /\ Len(job_q) = num_chunks
    /\ \A w \in BagToSet(workers) : w = NewWorker
    /\ BagCardinality(workers) = MAX_CONCURRENT

\* every worker has found the job channel closed and empty and has ended,
\* the result channel is closed and empty, the aggregate was returned
PoolEnded ==
    /\ pc = "hs_done"
    /\ job_q = <<>>
    /\ result_q = <<>>
    /\ BagCardinality(workers) = MAX_CONCURRENT
    /\ \A w \in BagToSet(workers) : w.pc = "done"
    /\ completed_batches = num_chunks
    /\ Last(events).type = "ScanComplete"

\* C25: all chunks are on the job channel, whose capacity is their number,
\* before any worker takes a job; if every protocol call returns, each of
\* the 10 workers finds the channel drained and closed and ends, the
\* result channel closes and the scan returns its aggregate, also when
\* every chunk fails.
C25_ScanTerminates ==
    /\ [](pc = "rs_collect" =>
            Len(job_q) <= num_chunks /\ Len(result_q) <= num_chunks)
    /\ [][pc # "rs_collect" /\ pc' = "rs_collect" => PoolStarted']_vars
    /\ (pc = "rs_collect") ~> PoolEnded

\* a scan that has returned although every chunk failed
C25_Witness ==
    /\ PoolEnded
    /\ Cardinality(batch_log) = num_chunks
    /\ num_chunks >= 1
    /\ \A b \in batch_log : ~b.ok

(***************************************************************************)
(* Properties of the job and result channels.                              *)
(***************************************************************************)
\* the number of workers that hold a chunk
RECURSIVE BusyIn(_, _)
BusyIn(B, S) ==
    IF S = {} THEN 0
    ELSE LET w == CHOOSE x \in S : TRUE
         IN (IF w.pc = "busy" THEN B[w] ELSE 0) + BusyIn(B, S \ {w})

Busy_Workers == BusyIn(workers, BagToSet(workers))

\* the progress reports of the aggregator: those after the report of 5%
AggregatorReports ==
    Len(SelectSeq(events, LAMBDA e : e.type = "ScanProgress")) - 2

\* every chunk of the partition is at exactly one place: on the job
\* channel, with one worker, or scanned; every scanned chunk has one
\* result, on the result channel or with the aggregator, which has sent
\* one report for each result it took
ChunkConservation ==
    pc = "rs_collect" \/ (pc = "hs_done" /\ num_chunks > 0) =>
      /\ Len(job_q) + Busy_Workers + Cardinality(batch_log) = num_chunks
      /\ Range(job_q) \cup {w.chunk : w \in {x \in BagToSet(workers) :
                                                x.pc = "busy"}}
           \cup {b.uids : b \in batch_log} = Range(Partition(uids_to_scan))
      /\ Cardinality(batch_log) = Len(result_q) + completed_batches
      /\ AggregatorReports = completed_batches
      /\ pc = "hs_done" => completed_batches = num_chunks

\* the step that scans a chunk sends its result: the senders found, or
\* the empty list if the chunk failed
OneResultPerChunk ==
    \A b \in batch_log' \ batch_log :
      /\ Cardinality(batch_log') = Cardinality(batch_log) + 1
      /\ result_q' = Append(result_q, IF b.ok THEN SendersOf(b.uids, b.lost)
                                      ELSE <<>>)

\* C26: every chunk put on the job channel is taken by exactly one worker
\* and yields exactly one message on the result channel (its senders, or
\* the empty list after a failure), so the aggregator takes exactly
\* num_chunks results and sends exactly num_chunks progress reports,
\* however the workers interleave.
C26_OneResultPerChunk ==
    [](ChunkConservation) /\ [][OneResultPerChunk]_vars

\* a completed scan of two chunks that were scanned by two workers, one
\* of them with a failure
C26_Witness ==
    /\ pc = "hs_done"
    /\ num_chunks = 2
    /\ AggregatorReports = 2
    /\ \E b \in batch_log : ~b.ok
    /\ \E b \in batch_log : b.ok
    /\ \E w1, w2 \in BagToSet(workers) :
         w1 # w2 /\ w1.opened = 1 /\ w2.opened = 1

(***************************************************************************)
(* The sessions open at the same time.                                     *)
(***************************************************************************)
\* the number of workers that hold a session
RECURSIVE HoldingIn(_, _)
HoldingIn(B, S) ==
    IF S = {} THEN 0
    ELSE LET w == CHOOSE x \in S : TRUE
         IN (IF w.session THEN B[w] ELSE 0) + HoldingIn(B, S \ {w})

OpenSessions ==
    (IF enum_session = "open" THEN 1 ELSE 0)
      + HoldingIn(workers, BagToSet(workers))

\* C27: at every moment of a scan at most 10 sessions are open: the
\* session of the enumeration is closed before a worker opens one, there
\* are at most 10 workers and each of them holds at most one session.
C27_SessionCap ==
    /\ OpenSessions <= MAX_CONCURRENT
    /\ BagCardinality(workers) <= MAX_CONCURRENT
    /\ workers # EmptyBag => enum_session = "closed"
    /\ \A w \in BagToSet(workers) :
         /\ w.opened - w.dropped - w.closed = IF w.session THEN 1 ELSE 0
         /\ w.session => w.pc # "done"

\* two workers hold a session at the same time
C27_Witness ==
    /\ pc = "rs_collect"
    /\ OpenSessions = 2
    /\ enum_session = "closed"
    /\ BagCardinality(workers) = MAX_CONCURRENT

(***************************************************************************)
(* Properties of the events of an operation.                               *)
(***************************************************************************)
\* the events a step sends
Appended ==
    IF Len(events') >= Len(events)
         /\ SubSeq(events', 1, Len(events)) = events
    THEN SubSeq(events', Len(events) + 1, Len(events'))
    ELSE <<>>

ScanKind(e) == e.type \in {"ScanProgress", "ScanComplete", "ScanError"}
ScanTerminal(e) == e.type \in {"ScanComplete", "ScanError"}
DeleteKind(e) == e.type \in {"DeleteProgress", "DeleteError", "DeleteComplete"}
DeleteTerminal(e) == e.type = "DeleteComplete"

\* the task of an accepted command is running
ScanRunning == pc \notin {"off", "hs_done"}
DeleteRunning == dpc \notin {"off", "hd_done"}

\* events are sent by the running task of their kind only; the step in
\* which a task ends sends its terminal event as the last event of the
\* step, and no other step sends a terminal event
TerminalEventLast ==
    LET new == Appended
        n == Len(new)
    IN /\ \A i \in 1..n :
            /\ ScanKind(new[i]) => ScanRunning
            /\ DeleteKind(new[i]) => DeleteRunning
            /\ ScanTerminal(new[i]) => i = n /\ pc' = "hs_done"
            /\ DeleteTerminal(new[i]) => i = n /\ dpc' = "hd_done"
       /\ (ScanRunning /\ pc' = "hs_done") => n >= 1 /\ ScanTerminal(new[n])
       /\ (DeleteRunning /\ dpc' = "hd_done") =>
            n >= 1 /\ DeleteTerminal(new[n])
       /\ ScanRunning /\ pc' # pc => pc' # "off"
       /\ DeleteRunning /\ dpc' # dpc => dpc' # "off"

\* C28: every accepted command sends exactly one terminal event, after all
\* its other events: a StartScan ends with one ScanComplete or ScanError,
\* never both, a StartDelete with one DeleteComplete, also when every
\* sender failed, after every DeleteError and DeleteProgress of the
\* operation.
C28_OneTerminalEvent == [][TerminalEventLast]_vars

\* a delete operation in which every sender failed has ended: its
\* DeleteComplete is the last event in the channel, after the DeleteError
C28_Witness ==
    /\ dpc = "hd_done"
    /\ removed_senders = <<>>
    /\ Len(senders) >= 1
    /\ Len(events) >= 2
    /\ Last(events) = DeleteComplete(<<>>, 0)
    /\ \E i \in 1..(Len(events) - 1) : events[i].type = "DeleteError"

(***************************************************************************)
(* Operations in flight.                                                   *)
(***************************************************************************)
\* the operations in flight: commands on their way to the background loop
\* and running tasks
InFlightOps ==
    Len(cmd_q) + (IF ScanRunning THEN 1 ELSE 0)
               + (IF DeleteRunning THEN 1 ELSE 0)

ScanInFlight ==
    ScanRunning \/ \E i \in 1..Len(cmd_q) : cmd_q[i].type = "StartScan"
DeleteInFlight ==
    DeleteRunning \/ \E i \in 1..Len(cmd_q) : cmd_q[i].type = "StartDelete"

OneOperation ==
    /\ InFlightOps <= 1
    /\ ScanInFlight => phase = "Scanning"
    /\ DeleteInFlight => phase = "Deleting"

\* a command is sent only when the phase, after the events present were
\* handled at the start of the frame, is not busy, and sending makes the
\* phase busy; the phase leaves a busy value only in a frame that takes
\* the terminal event of the operation from the channel
PhaseProtocol ==
    /\ cmd_q' # cmd_q /\ Len(cmd_q') > Len(cmd_q) =>
         /\ drain_events(AppState, events).phase
              \notin {"Scanning", "Deleting"}
         /\ cmd_q' = Append(cmd_q, Last(cmd_q'))
         /\ phase' = IF Last(cmd_q').type = "StartScan" THEN "Scanning"
                     ELSE "Deleting"
    /\ phase = "Scanning" /\ phase' # "Scanning" =>
         \E i \in 1..Len(events) : ScanTerminal(events[i])
    /\ phase = "Deleting" /\ phase' # "Deleting" =>
         \E i \in 1..Len(events) : DeleteTerminal(events[i])

\* C29: in the UI together with the background at most one operation is
\* in flight: a command is sent only when the phase is neither Scanning
\* nor Deleting and makes it so, and the phase leaves the busy value only
\* when the terminal event of the operation is drained; two deletes, or a
\* scan and a delete, never run at the same time.
C29_OneOperationInFlight == [](OneOperation) /\ [][PhaseProtocol]_vars

\* a delete operation runs as the second operation of the session, after
\* the scan task has returned
C29_Witness ==
    /\ issued = 2
    /\ DeleteRunning
    /\ phase = "Deleting"
    /\ pc = "off"
    /\ cmd_q = <<>>

(***************************************************************************)
(* Every named sender is counted.                                          *)
(***************************************************************************)
\* the normalized sender of a stored header with a From value: the angle
\* part if there is one, the value otherwise, in lower case
NormalizedSenders(h) ==
    LET v == FromValue(h)
    IN IF AngleParts(v) # {} THEN {to_lowercase(a) : a \in AngleParts(v)}
       ELSE {to_lowercase(v)}

\* the messages of a chunk whose items arrived and name a sender
Counted(b) == {u \in Range(b.uids) \ b.lost : NamesSender(u)}

\* the number of times sender s is in a list of senders
Occurrences(list, s) == Len(SelectSeq(list, LAMBDA x : x = s))

\* C30: every fetched message with a non-empty From value adds exactly 1
\* to the count of its normalized sender, whatever that text is, also if
\* it is the text "unknown".
C30_EverySenderCounted ==
    \A b \in batch_log :
      b.ok =>
        /\ Len(Last(result_q)) = Cardinality(Counted(b))
        /\ \A u \in Counted(b) :
             \E s \in NormalizedSenders(mailbox[u]) :
               Occurrences(Last(result_q), s)
                 = Cardinality({v \in Counted(b) :
                                  s \in NormalizedSenders(mailbox[v])})

\* the same statement for the messages whose normalized sender is not the
\* text "unknown"; this one holds
OtherSendersCounted ==
    \A b \in batch_log :
      b.ok =>
        LET named == {u \in Counted(b) :
                        Unknown \notin NormalizedSenders(mailbox[u])}
        IN /\ Len(Last(result_q)) = Cardinality(named)
           /\ \A u \in named :
                \E s \in NormalizedSenders(mailbox[u]) :
                  Occurrences(Last(result_q), s)
                    = Cardinality({v \in named :
                                     s \in NormalizedSenders(mailbox[v])})

====
